---- MODULE Spec2Model ----
(***************************************************************************)
(* Runtime configuration store of traefik (package dynamic):               *)
(* NewRuntimeConfig, PopulateUsedBy, GetRoutersByEntryPoints,              *)
(* GetTCPRoutersByEntryPoints and the AddError methods of RouterInfo,      *)
(* MiddlewareInfo and ServiceInfo.                                         *)
(*                                                                         *)
(* Entity names and references are Go strings that the code splits on "@"  *)
(* and sorts bytewise, so they are modelled as sequences of byte values.   *)
(* Entry point names, statuses and error messages are only ever compared   *)
(* for equality and are atoms.                                             *)
(***************************************************************************)
EXTENDS Integers, Sequences, FiniteSets, TLC

VARIABLES
    conf,           \* the dynamic Configuration handed to NewRuntimeConfig
    runtimeConfig,  \* the *RuntimeConfiguration built from it (nil before)
    populateCalls,  \* calls of PopulateUsedBy made on runtimeConfig so far
    lastCall,       \* the last call made: its name, arguments and return value
    maps,           \* the map[string]string objects on the heap, by address 1, 2, ...
    serverStatus,   \* the field serverStatus of one ServiceInfo: an address, 0 for nil
    returned,       \* the addresses GetAllStatus returned to its callers, in order
    statusSet,      \* server -> status as the UpdateServerStatus calls set them
    terminationDelay, \* Proxy.terminationDelay
    pcServe,        \* where ServeTCP is
    pcCopy,         \* where each of the two connCopy goroutines is
    fd,             \* conn and connBackend: "none", "open" or "closed"
    halfClosed,     \* the connections whose write side CloseWrite has shut
    deadline,       \* the read deadline of each connection: <<>> or <<time>>
    peer,           \* what the remote end of each connection does: "live", "eof", "reset"
    now,            \* the clock
    copyLog,        \* per goroutine: the results of its CloseWrite and SetReadDeadline
    received,       \* the goroutines whose value ServeTCP has received from errChan, in order
    mw,             \* what the frontend, the backend and the global configuration ask for
    chain,          \* what buildBalancerMiddlewares returned
    req,            \* one request on its way through the handler that was built
    manager,        \* the TCP service Manager: its configs and the services it was asked for
    balancer,       \* one load balancer: its servers, its round-robin cursor, its picks
    publication,    \* the published RuntimeConfiguration, the reload task and the readers
    merging,        \* one run of a provider's buildConfiguration
    listener,       \* the UDP Listener: its sessions and its Shutdown
    stats,          \* the StatsRecorder and the requests going through it
    forwardAuth,    \* one request through the forward-auth middleware
    theServer,      \* the Server: its stop channel, its shutdown goroutine and the waiters
    locking,        \* one ServiceInfo whose callers run concurrently under its mutex
    lbs,            \* the ServersLoadBalancer objects that Mergeable is called with
    whitelist,      \* one white list check of a request
    authRequest,    \* the headers of one request on its way through forward-auth
    histogram       \* the histograms that With is called on and their label lists

\* the runtime configuration store
storeVars == <<conf, runtimeConfig, populateCalls>>

\* the live server status of one ServiceInfo
statusVars == <<maps, serverStatus, returned, statusSet>>

\* one run of Proxy.ServeTCP
proxyVars ==
    <<terminationDelay, pcServe, pcCopy, fd, halfClosed, deadline, peer, now, copyLog, received>>

\* the handler chain of one backend and one request through it
chainVars == <<mw, chain, req>>

\* the components that are kept in one record each
restVars ==
    <<manager, balancer, publication, merging, listener, stats, forwardAuth,
      theServer, locking, lbs, whitelist, authRequest, histogram>>

\* everything but the runtime configuration store
outsideStore == <<statusVars, proxyVars, chainVars, restVars>>

vars == <<storeVars, lastCall, statusVars, proxyVars, chainVars, restVars>>

\* no ServiceInfo has a server status yet
StatusIdle == maps = <<>> /\ serverStatus = 0 /\ returned = <<>> /\ statusSet = <<>>

\* no connection has been accepted
ProxyIdle ==
    /\ terminationDelay = 0
    /\ pcServe = "idle"
    /\ pcCopy = <<>>
    /\ fd = <<>>
    /\ halfClosed = {}
    /\ deadline = <<>>
    /\ peer = <<>>
    /\ now = 0
    /\ copyLog = <<>>
    /\ received = <<>>

\* no handler has been asked for
ChainIdle == mw = <<>> /\ chain = <<>> /\ req = <<>>

\* the components kept in one record each have not been set up, except the named one
RestIdleBut(name) ==
    /\ name = "manager" \/ manager = <<>>
    /\ name = "balancer" \/ balancer = <<>>
    /\ name = "publication" \/ publication = <<>>
    /\ name = "merging" \/ merging = <<>>
    /\ name = "listener" \/ listener = <<>>
    /\ name = "stats" \/ stats = <<>>
    /\ name = "forwardAuth" \/ forwardAuth = <<>>
    /\ name = "theServer" \/ theServer = <<>>
    /\ name = "locking" \/ locking = <<>>
    /\ name = "lbs" \/ lbs = <<>>
    /\ name = "whitelist" \/ whitelist = <<>>
    /\ name = "authRequest" \/ authRequest = <<>>
    /\ name = "histogram" \/ histogram = <<>>

RestIdle == RestIdleBut("none")

OutsideStoreIdle == StatusIdle /\ ProxyIdle /\ ChainIdle /\ RestIdle

---------------------------------------------------------------------------
(* Bounds *)

\* how many times PopulateUsedBy may be called on one RuntimeConfiguration
MaxPopulateCalls == 2

\* number of distinct error messages handed to AddError
MaxErrMsgs == 2

---------------------------------------------------------------------------
(* Strings *)

\* the byte '@', separator of name and provider
At == 64

\* "" (the empty Go string)
EmptyString == <<>>

a_p == <<97, 64, 112>>
b_p == <<98, 64, 112>>
a_q == <<97, 64, 113>>
c_  == <<99>>
s_  == <<115>>
s_p == <<115, 64, 112>>
s_q == <<115, 64, 113>>
m_  == <<109>>
m_p == <<109, 64, 112>>
t_p == <<116, 64, 112>>
u_p == <<117, 64, 112>>
v_  == <<118>>
v_p == <<118, 64, 112>>

\* index of the first '@' in s, 0 if there is none
RECURSIVE IndexAt(_, _)
IndexAt(s, i) ==
    IF i > Len(s) THEN 0
    ELSE IF s[i] = At THEN i
    ELSE IndexAt(s, i + 1)

\* strings.Split(s, "@")
RECURSIVE Split(_)
Split(s) ==
    LET i == IndexAt(s, 1)
    IN  IF i = 0 THEN <<s>>
        ELSE <<SubSeq(s, 1, i - 1)>> \o Split(SubSeq(s, i + 1, Len(s)))

\* a < b for Go strings (bytewise lexical order)
RECURSIVE StrLess(_, _)
StrLess(a, b) ==
    IF b = <<>> THEN FALSE
    ELSE IF a = <<>> THEN TRUE
    ELSE IF Head(a) < Head(b) THEN TRUE
    ELSE IF Head(a) > Head(b) THEN FALSE
    ELSE StrLess(Tail(a), Tail(b))

\* insert x into the ascending list
RECURSIVE InsertSorted(_, _)
InsertSorted(sorted, x) ==
    IF sorted = <<>> THEN <<x>>
    ELSE IF StrLess(x, Head(sorted)) THEN <<x>> \o sorted
    ELSE <<Head(sorted)>> \o InsertSorted(Tail(sorted), x)

\* sort.Strings(list)
RECURSIVE SortStrings(_)
SortStrings(list) ==
    IF list = <<>> THEN <<>>
    ELSE InsertSorted(SortStrings(Tail(list)), Head(list))

getProviderName(elementName) ==
    LET parts == Split(elementName)
    IN  IF Len(parts) > 1 THEN parts[2] ELSE EmptyString

\* a plausible slip: the provider is appended to qualified names too
getQualifiedNameAlways(provider, elementName) == elementName \o <<At>> \o provider

getQualifiedName(provider, elementName) ==
    LET parts == Split(elementName)
    IN  IF Len(parts) = 1 THEN elementName \o <<At>> \o provider
        ELSE elementName

---------------------------------------------------------------------------
(* Go maps and slices *)

Range(list) == {list[i] : i \in DOMAIN list}

\* all the orders in which a Go map with this key set can be iterated
Orders(keys) ==
    {o \in [1..Cardinality(keys) -> keys] : \A i, j \in DOMAIN o : i /= j => o[i] /= o[j]}

\* a map-typed field: nil, or made and holding kv
NilMap == [isNil |-> TRUE, kv |-> <<>>]

MakeMap(f) == [isNil |-> FALSE, kv |-> f]

Keys(m) == DOMAIN m.kv

RuntimeStatusEnabled == "enabled"
RuntimeStatusDisabled == "disabled"
RuntimeStatusWarning == "warning"


---------------------------------------------------------------------------
(* Configuration (the input) and RuntimeConfiguration *)

\* &RuntimeConfiguration{}: a non-nil pointer to the zero value
EmptyRuntimeConfiguration ==
    [isNil |-> FALSE, Routers |-> NilMap, Middlewares |-> NilMap, Services |-> NilMap,
     TCPRouters |-> NilMap, TCPServices |-> NilMap]

\* a nil *RuntimeConfiguration, what a caller holds before NewRuntimeConfig
NilRuntimeConfiguration == [EmptyRuntimeConfiguration EXCEPT !.isNil = TRUE]

\* conf.HTTP == nil, conf.TCP == nil
NilHTTP == [isNil |-> TRUE, Routers |-> <<>>, Middlewares |-> <<>>, Services |-> <<>>]
NilTCP == [isNil |-> TRUE, Routers |-> <<>>, Services |-> <<>>]

\* a plausible slip: the map is made whatever the length of the input
MakeAlways(entries) == MakeMap(entries)

\* if len(m) > 0 { make(map, len(m)); fill it with the wrapped entries }
MakeIfAny(entries) ==
    IF Cardinality(DOMAIN entries) > 0 THEN MakeMap(entries) ELSE NilMap

\* a plausible slip: the initial Status is left to the caller
NewRouterInfoNoStatus(v) == [Router |-> v, Err |-> <<>>, Status |-> ""]

NewRouterInfo(v) == [Router |-> v, Err |-> <<>>, Status |-> RuntimeStatusEnabled]
NewServiceInfo(v) == [Service |-> v, Err |-> <<>>, Status |-> RuntimeStatusEnabled, UsedBy |-> <<>>]
NewMiddlewareInfo(v) == [Middleware |-> v, Err |-> <<>>, UsedBy |-> <<>>]
NewTCPRouterInfo(v) == [TCPRouter |-> v, Err |-> ""]
\* Err is the nil error
NewTCPServiceInfo(v) == [TCPService |-> v, Err |-> "nil", UsedBy |-> <<>>]

NewRuntimeConfig(c) ==
    IF c.HTTP.isNil /\ c.TCP.isNil THEN EmptyRuntimeConfiguration
    ELSE LET Wrapped(m, Wrap(_)) == MakeIfAny([k \in DOMAIN m |-> Wrap(m[k])])
         IN  [isNil |-> FALSE,
              Routers |->
                  IF c.HTTP.isNil THEN NilMap ELSE Wrapped(c.HTTP.Routers, NewRouterInfo),
              Services |->
                  IF c.HTTP.isNil THEN NilMap ELSE Wrapped(c.HTTP.Services, NewServiceInfo),
              Middlewares |->
                  IF c.HTTP.isNil THEN NilMap ELSE Wrapped(c.HTTP.Middlewares, NewMiddlewareInfo),
              TCPRouters |->
                  IF c.TCP.isNil THEN NilMap ELSE Wrapped(c.TCP.Routers, NewTCPRouterInfo),
              TCPServices |->
                  IF c.TCP.isNil THEN NilMap ELSE Wrapped(c.TCP.Services, NewTCPServiceInfo)]

---------------------------------------------------------------------------
(* PopulateUsedBy *)

\* a plausible slip: the router name is appended only if the list lacks it
AppendUsedByOnce(m, k, routerName) ==
    IF routerName \in Range(m.kv[k].UsedBy) THEN m
    ELSE [m EXCEPT !.kv[k].UsedBy = Append(@, routerName)]

\* m[k].UsedBy = append(m[k].UsedBy, routerName)
AppendUsedBy(m, k, routerName) == [m EXCEPT !.kv[k].UsedBy = Append(@, routerName)]

\* the loop over routerInfo.Router.Middlewares
RECURSIVE LinkMiddlewares(_, _, _, _)
LinkMiddlewares(middlewares, midNames, providerName, routerName) ==
    IF midNames = <<>> THEN middlewares
    ELSE LET fullMidName == getQualifiedName(providerName, Head(midNames))
             linked == IF fullMidName \notin Keys(middlewares) THEN middlewares
                       ELSE AppendUsedBy(middlewares, fullMidName, routerName)
         IN  LinkMiddlewares(linked, Tail(midNames), providerName, routerName)

\* one iteration of the loop over r.Routers
LinkRouter(r, routerName) ==
    LET r1 == [r EXCEPT !.Routers.kv[routerName].Status =
                   IF @ = "" THEN RuntimeStatusEnabled ELSE @]
        routerInfo == r1.Routers.kv[routerName]
        providerName == getProviderName(routerName)
        r2 == [r1 EXCEPT !.Middlewares =
                   LinkMiddlewares(@, routerInfo.Router.Middlewares, providerName, routerName)]
        serviceName == getQualifiedName(providerName, routerInfo.Router.Service)
    IN  IF providerName = EmptyString THEN r1
        ELSE IF serviceName \notin Keys(r2.Services) THEN r2
        ELSE [r2 EXCEPT !.Services = AppendUsedBy(@, serviceName, routerName)]

\* one iteration of the loop over r.TCPRouters
LinkTCPRouter(r, routerName) ==
    LET providerName == getProviderName(routerName)
        serviceName == getQualifiedName(providerName, r.TCPRouters.kv[routerName].TCPRouter.Service)
    IN  IF providerName = EmptyString THEN r
        ELSE IF serviceName \notin Keys(r.TCPServices) THEN r
        ELSE [r EXCEPT !.TCPServices = AppendUsedBy(@, serviceName, routerName)]

\* the range loop over r.Routers, visiting the keys in the given order
RECURSIVE LinkRouters(_, _)
LinkRouters(r, order) ==
    IF order = <<>> THEN r
    ELSE LinkRouters(LinkRouter(r, Head(order)), Tail(order))

\* the range loop over r.TCPRouters, visiting the keys in the given order
RECURSIVE LinkTCPRouters(_, _)
LinkTCPRouters(r, order) ==
    IF order = <<>> THEN r
    ELSE LinkTCPRouters(LinkTCPRouter(r, Head(order)), Tail(order))

\* the loop over r.Services: lazy Status and sort.Strings(UsedBy)
SortServices(services) ==
    [isNil |-> services.isNil,
     kv |-> [k \in Keys(services) |->
                [services.kv[k] EXCEPT
                    !.Status = IF @ = "" THEN RuntimeStatusEnabled ELSE @,
                    !.UsedBy = SortStrings(@)]]]

\* a plausible slip: the lists are left in the order of the appends
SortUsedByNone(m) == m

\* the loops over r.Middlewares and over r.TCPServices: sort.Strings(UsedBy)
SortUsedBy(m) ==
    [isNil |-> m.isNil,
     kv |-> [k \in Keys(m) |-> [m.kv[k] EXCEPT !.UsedBy = SortStrings(@)]]]

\* r.PopulateUsedBy(), the maps r.Routers and r.TCPRouters being iterated in
\* the orders routerOrder and tcpRouterOrder
PopulateUsedBy(r, routerOrder, tcpRouterOrder) ==
    IF r.isNil THEN r
    ELSE LET linked == LinkRouters(r, routerOrder)
             sorted == [linked EXCEPT !.Services = SortServices(@),
                                      !.Middlewares = SortUsedBy(@)]
             tcpLinked == LinkTCPRouters(sorted, tcpRouterOrder)
         IN  [tcpLinked EXCEPT !.TCPServices = SortUsedBy(@)]

---------------------------------------------------------------------------
(* Inputs of the back-reference pass *)

NoTLS == "nil"
WithTLS == "tls"

Router(entryPoints, middlewares, service, tls) ==
    [EntryPoints |-> entryPoints, Middlewares |-> middlewares, Service |-> service, TLS |-> tls]

TCPRouter(entryPoints, service) == [EntryPoints |-> entryPoints, Service |-> service]

LoadBalancerService == [LoadBalancer |-> "servers"]
SomeMiddleware == [Kind |-> "headers"]
TCPLoadBalancerService == [LoadBalancer |-> "tcp servers"]

\* all the maps from a subset of keys to values
MapsOver(keys, values) == UNION {[ks -> values] : ks \in SUBSET keys}

\* routers a@q and b@p refer to service s or s@p and to middlewares m, m@p;
\* router c carries no provider
LinkedRouters ==
    {Router(<<>>, mids, svc, NoTLS) : mids \in {<<>>, <<m_>>, <<m_p, m_>>}, svc \in {s_, s_p}}

UsedByHTTP ==
    {NilHTTP} \cup
    {[isNil |-> FALSE, Routers |-> qualified @@ unqualified, Middlewares |-> mws, Services |-> svcs] :
        qualified \in MapsOver({a_q, b_p}, LinkedRouters),
        unqualified \in MapsOver({c_}, {Router(<<>>, <<m_p>>, s_p, NoTLS)}),
        mws \in MapsOver({m_p}, {SomeMiddleware}),
        svcs \in {[k \in ks |-> LoadBalancerService] : ks \in {{}, {s_p}, {s_p, s_q}}}}

UsedByTCP ==
    {NilTCP} \cup
    {[isNil |-> FALSE, Routers |-> rts, Services |-> svcs] :
        rts \in MapsOver({t_p, u_p}, {TCPRouter(<<>>, v_)}),
        svcs \in MapsOver({v_p}, {TCPLoadBalancerService})}

UsedByConfs == {[HTTP |-> h, TCP |-> t] : h \in UsedByHTTP, t \in UsedByTCP}

---------------------------------------------------------------------------
(* Building and annotating a runtime configuration *)

NoCall == [op |-> "none"]

Init ==
    /\ conf \in UsedByConfs
    /\ runtimeConfig = NilRuntimeConfiguration
    /\ populateCalls = 0
    /\ lastCall = NoCall
    /\ OutsideStoreIdle

\* runtimeConfig := NewRuntimeConfig(conf)
NewRuntimeConfigStep ==
    /\ runtimeConfig.isNil
    /\ runtimeConfig' = NewRuntimeConfig(conf)
    /\ populateCalls' = 0
    /\ lastCall' = [op |-> "NewRuntimeConfig"]
    /\ UNCHANGED <<conf, outsideStore>>

\* runtimeConfig.PopulateUsedBy()
PopulateUsedByStep ==
    /\ populateCalls < MaxPopulateCalls
    /\ \E routerOrder \in Orders(Keys(runtimeConfig.Routers)),
          tcpRouterOrder \in Orders(Keys(runtimeConfig.TCPRouters)) :
           runtimeConfig' = PopulateUsedBy(runtimeConfig, routerOrder, tcpRouterOrder)
    /\ populateCalls' = populateCalls + 1
    /\ lastCall' = [op |-> "PopulateUsedBy"]
    /\ UNCHANGED <<conf, outsideStore>>

Next == NewRuntimeConfigStep \/ PopulateUsedByStep

Spec == Init /\ [][Next]_vars

---------------------------------------------------------------------------
(* Properties of NewRuntimeConfig and PopulateUsedBy *)

HasAt(name) == \E i \in DOMAIN name : name[i] = At

\* name is n@p with n and p free of '@' and p not empty
IsNameAtProvider(name, p) ==
    /\ p /= <<>>
    /\ ~HasAt(p)
    /\ Len(name) > Len(p)
    /\ SubSeq(name, Len(name) - Len(p) + 1, Len(name)) = p
    /\ name[Len(name) - Len(p)] = At
    /\ ~HasAt(SubSeq(name, 1, Len(name) - Len(p) - 1))

Providers == {<<112>>, <<113>>}

\* the reference as the router of provider p means it
Referred(reference, p) == IF HasAt(reference) THEN reference ELSE reference \o <<At>> \o p

Built == ~runtimeConfig.isNil

PopulatedOnce == Built /\ populateCalls = 1

IsAscending(list) == \A i, j \in DOMAIN list : i < j => ~StrLess(list[j], list[i])

\* C4: after PopulateUsedBy on a freshly built configuration, a router n@p is
\* in the UsedBy of a service (middleware) exactly when that entity is stored
\* under the router's service reference (one of its middleware references)
\* qualified with p if the reference has no '@'; the same for TCP routers and
\* TCP services.
C4_UsedByIffReferenced ==
    PopulatedOnce =>
        /\ \A rn \in Keys(runtimeConfig.Routers), p \in Providers :
               IsNameAtProvider(rn, p) =>
                   LET rt == runtimeConfig.Routers.kv[rn].Router
                   IN  /\ \A e \in Keys(runtimeConfig.Services) :
                              rn \in Range(runtimeConfig.Services.kv[e].UsedBy)
                                  <=> e = Referred(rt.Service, p)
                       /\ \A e \in Keys(runtimeConfig.Middlewares) :
                              rn \in Range(runtimeConfig.Middlewares.kv[e].UsedBy)
                                  <=> \E i \in DOMAIN rt.Middlewares :
                                          e = Referred(rt.Middlewares[i], p)
        /\ \A rn \in Keys(runtimeConfig.TCPRouters), p \in Providers :
               IsNameAtProvider(rn, p) =>
                   \A e \in Keys(runtimeConfig.TCPServices) :
                       rn \in Range(runtimeConfig.TCPServices.kv[e].UsedBy)
                           <=> e = Referred(runtimeConfig.TCPRouters.kv[rn].TCPRouter.Service, p)

\* a@q reaches s@p through the qualified reference, b@p through the bare one,
\* and a@q's bare middleware reference m (m@q) finds no middleware
C4_Witness ==
    /\ PopulatedOnce
    /\ {a_q, b_p} \subseteq Keys(runtimeConfig.Routers)
    /\ runtimeConfig.Routers.kv[a_q].Router.Service = s_p
    /\ runtimeConfig.Routers.kv[b_p].Router.Service = s_
    /\ runtimeConfig.Routers.kv[a_q].Router.Middlewares = <<m_>>
    /\ s_p \in Keys(runtimeConfig.Services)
    /\ runtimeConfig.Services.kv[s_p].UsedBy = <<a_q, b_p>>
    /\ m_p \in Keys(runtimeConfig.Middlewares)
    /\ runtimeConfig.Middlewares.kv[m_p].UsedBy = <<>>
    /\ v_p \in Keys(runtimeConfig.TCPServices)
    /\ runtimeConfig.TCPServices.kv[v_p].UsedBy = <<t_p, u_p>>

\* C5: a further call of PopulateUsedBy leaves every UsedBy list, Status and
\* Err list as the first call left them.
C5_PopulateIdempotent ==
    [][(Built /\ populateCalls >= 1 /\ lastCall'.op = "PopulateUsedBy")
           => runtimeConfig' = runtimeConfig]_vars

AllUsedBy ==
    {runtimeConfig.Services.kv[k].UsedBy : k \in Keys(runtimeConfig.Services)} \cup
    {runtimeConfig.Middlewares.kv[k].UsedBy : k \in Keys(runtimeConfig.Middlewares)} \cup
    {runtimeConfig.TCPServices.kv[k].UsedBy : k \in Keys(runtimeConfig.TCPServices)}

UsedByAscending == (Built /\ populateCalls >= 1) => \A list \in AllUsedBy : IsAscending(list)

\* whatever order the step iterated the maps in, every other order gives the
\* same configuration
PopulateOrderIrrelevant ==
    lastCall'.op = "PopulateUsedBy" =>
        \A routerOrder \in Orders(Keys(runtimeConfig.Routers)),
           tcpRouterOrder \in Orders(Keys(runtimeConfig.TCPRouters)) :
            runtimeConfig' = PopulateUsedBy(runtimeConfig, routerOrder, tcpRouterOrder)

\* C6: after PopulateUsedBy every UsedBy list of the HTTP services, the
\* middlewares and the TCP services is in ascending lexical order, and the
\* result does not depend on the order in which the router maps are iterated.
C6_UsedBySorted == []UsedByAscending /\ [][PopulateOrderIrrelevant]_vars

\* b@p was visited before a@q, or u@p before t@p, and the list is sorted
C6_Witness ==
    /\ Built
    /\ populateCalls >= 1
    /\ \E list \in AllUsedBy : Len(list) >= 2 /\ list[1] /= list[2]

JustBuilt == Built /\ lastCall.op = "NewRuntimeConfig"

InputKeys(section, field) == IF section.isNil THEN {} ELSE DOMAIN section[field]

\* C7: NewRuntimeConfig returns a non-nil configuration whose Routers and
\* Services hold exactly the keys of the input HTTP routers and services,
\* each wrapping the input entity with Status enabled and no error.
C7_NewRuntimeConfigWraps ==
    lastCall.op = "NewRuntimeConfig" =>
        /\ ~runtimeConfig.isNil
        /\ Keys(runtimeConfig.Routers) = InputKeys(conf.HTTP, "Routers")
        /\ Keys(runtimeConfig.Services) = InputKeys(conf.HTTP, "Services")
        /\ \A k \in Keys(runtimeConfig.Routers) :
               /\ runtimeConfig.Routers.kv[k].Router = conf.HTTP.Routers[k]
               /\ runtimeConfig.Routers.kv[k].Status = RuntimeStatusEnabled
               /\ runtimeConfig.Routers.kv[k].Err = <<>>
        /\ \A k \in Keys(runtimeConfig.Services) :
               /\ runtimeConfig.Services.kv[k].Service = conf.HTTP.Services[k]
               /\ runtimeConfig.Services.kv[k].Status = RuntimeStatusEnabled
               /\ runtimeConfig.Services.kv[k].Err = <<>>

C7_Witness ==
    /\ JustBuilt
    /\ Cardinality(Keys(runtimeConfig.Routers)) = 3
    /\ Cardinality(Keys(runtimeConfig.Services)) = 2

FiveMaps ==
    {runtimeConfig.Routers, runtimeConfig.Middlewares, runtimeConfig.Services,
     runtimeConfig.TCPRouters, runtimeConfig.TCPServices}

\* C8 as stated: with at least one of the two sections present every map is
\* made (empty, not nil), and all five maps are nil only when both sections
\* are absent.
C8_EmptyNotNilMaps ==
    JustBuilt =>
        /\ (~conf.HTTP.isNil \/ ~conf.TCP.isNil) => \A m \in FiveMaps : ~m.isNil
        /\ (\A m \in FiveMaps : m.isNil) => (conf.HTTP.isNil /\ conf.TCP.isNil)

\* C8 amended: each of the five maps is non-nil exactly when its input map has
\* at least one entry; the map of an absent or empty input is nil.
C8_NilUnlessEntries ==
    JustBuilt =>
        /\ ~runtimeConfig.Routers.isNil <=> InputKeys(conf.HTTP, "Routers") /= {}
        /\ ~runtimeConfig.Middlewares.isNil <=> InputKeys(conf.HTTP, "Middlewares") /= {}
        /\ ~runtimeConfig.Services.isNil <=> InputKeys(conf.HTTP, "Services") /= {}
        /\ ~runtimeConfig.TCPRouters.isNil <=> InputKeys(conf.TCP, "Routers") /= {}
        /\ ~runtimeConfig.TCPServices.isNil <=> InputKeys(conf.TCP, "Services") /= {}

\* the HTTP section is present with services but no router, the TCP section is
\* present and empty
C8_Witness ==
    /\ JustBuilt
    /\ ~conf.HTTP.isNil
    /\ ~conf.TCP.isNil
    /\ DOMAIN conf.HTTP.Routers = {}
    /\ DOMAIN conf.TCP.Routers = {}
    /\ DOMAIN conf.TCP.Services = {}
    /\ runtimeConfig.Routers.isNil
    /\ ~runtimeConfig.Services.isNil
    /\ runtimeConfig.TCPRouters.isNil

---------------------------------------------------------------------------
(* AddError *)

\* a plausible slip: the message is appended without looking for it in Err
MiddlewareInfoAddErrorNoDedup(m, err) == [m EXCEPT !.Err = Append(@, err)]

\* m.AddError(err), err standing for err.Error()
MiddlewareInfoAddError(m, err) ==
    IF err \in Range(m.Err) THEN m
    ELSE [m EXCEPT !.Err = Append(@, err)]

\* a plausible slip: a non-critical error always sets the warning status
RouterInfoAddErrorAlwaysWarns(r, err, critical) ==
    IF err \in Range(r.Err) THEN r
    ELSE [r EXCEPT !.Err = Append(@, err),
                   !.Status = IF critical THEN RuntimeStatusDisabled ELSE RuntimeStatusWarning]

\* r.AddError(err, critical)
RouterInfoAddError(r, err, critical) ==
    IF err \in Range(r.Err) THEN r
    ELSE LET appended == [r EXCEPT !.Err = Append(@, err)]
         IN  IF critical THEN [appended EXCEPT !.Status = RuntimeStatusDisabled]
             ELSE IF appended.Status /= RuntimeStatusDisabled
                  THEN [appended EXCEPT !.Status = RuntimeStatusWarning]
                  ELSE appended

\* s.AddError(err, critical)
ServiceInfoAddError(s, err, critical) ==
    IF err \in Range(s.Err) THEN s
    ELSE LET appended == [s EXCEPT !.Err = Append(@, err)]
         IN  IF critical THEN [appended EXCEPT !.Status = RuntimeStatusDisabled]
             ELSE IF appended.Status /= RuntimeStatusDisabled
                  THEN [appended EXCEPT !.Status = RuntimeStatusWarning]
                  ELSE appended

\* the messages of the errors the builders report
ErrMsgs == 1..MaxErrMsgs

\* one router, one service and one middleware to report errors on
AddErrorConf ==
    [HTTP |-> [isNil |-> FALSE,
               Routers |-> (b_p :> Router(<<>>, <<m_>>, s_, NoTLS)),
               Middlewares |-> (m_p :> SomeMiddleware),
               Services |-> (s_p :> LoadBalancerService)],
     TCP |-> NilTCP]

InitAddError ==
    /\ conf = AddErrorConf
    /\ runtimeConfig = NilRuntimeConfiguration
    /\ populateCalls = 0
    /\ lastCall = NoCall
    /\ OutsideStoreIdle

RouterAddErrorStep ==
    \E name \in Keys(runtimeConfig.Routers), err \in ErrMsgs, critical \in BOOLEAN :
        /\ runtimeConfig' = [runtimeConfig EXCEPT
               !.Routers.kv[name] = RouterInfoAddError(@, err, critical)]
        /\ lastCall' = [op |-> "RouterInfo.AddError", name |-> name, err |-> err,
                        critical |-> critical]
        /\ UNCHANGED <<conf, populateCalls, outsideStore>>

ServiceAddErrorStep ==
    \E name \in Keys(runtimeConfig.Services), err \in ErrMsgs, critical \in BOOLEAN :
        /\ runtimeConfig' = [runtimeConfig EXCEPT
               !.Services.kv[name] = ServiceInfoAddError(@, err, critical)]
        /\ lastCall' = [op |-> "ServiceInfo.AddError", name |-> name, err |-> err,
                        critical |-> critical]
        /\ UNCHANGED <<conf, populateCalls, outsideStore>>

MiddlewareAddErrorStep ==
    \E name \in Keys(runtimeConfig.Middlewares), err \in ErrMsgs :
        /\ runtimeConfig' = [runtimeConfig EXCEPT
               !.Middlewares.kv[name] = MiddlewareInfoAddError(@, err)]
        /\ lastCall' = [op |-> "MiddlewareInfo.AddError", name |-> name, err |-> err,
                        critical |-> FALSE]
        /\ UNCHANGED <<conf, populateCalls, outsideStore>>

NextAddError ==
    \/ NewRuntimeConfigStep
    \/ RouterAddErrorStep
    \/ ServiceAddErrorStep
    \/ MiddlewareAddErrorStep

SpecAddError == InitAddError /\ [][NextAddError]_vars

---------------------------------------------------------------------------
(* Properties of AddError *)

\* enabled < warning < disabled
Severity(status) ==
    CASE status = RuntimeStatusEnabled -> 0
      [] status = RuntimeStatusWarning -> 1
      [] status = RuntimeStatusDisabled -> 2

AddErrorOps == {"RouterInfo.AddError", "ServiceInfo.AddError", "MiddlewareInfo.AddError"}

StatusNeverImproves ==
    (Built /\ lastCall'.op \in AddErrorOps) =>
        /\ \A k \in Keys(runtimeConfig.Routers) :
               Severity(runtimeConfig'.Routers.kv[k].Status)
                   >= Severity(runtimeConfig.Routers.kv[k].Status)
        /\ \A k \in Keys(runtimeConfig.Services) :
               Severity(runtimeConfig'.Services.kv[k].Status)
                   >= Severity(runtimeConfig.Services.kv[k].Status)

\* C1: over any sequence of AddError calls the status of a RouterInfo or
\* ServiceInfo that started enabled never goes from disabled to warning or
\* enabled, nor from warning to enabled.
C1_StatusMonotonic == [][StatusNeverImproves]_vars

\* a non-critical error was reported on a router that a critical error had disabled
C1_Witness ==
    /\ lastCall.op = "RouterInfo.AddError"
    /\ ~lastCall.critical
    /\ Len(runtimeConfig.Routers.kv[lastCall.name].Err) = 2
    /\ runtimeConfig.Routers.kv[lastCall.name].Err[2] = lastCall.err
    /\ runtimeConfig.Routers.kv[lastCall.name].Status = RuntimeStatusDisabled

\* the Err list of the entity the last AddError was called on
ErrOf(config, call) ==
    CASE call.op = "RouterInfo.AddError" -> config.Routers.kv[call.name].Err
      [] call.op = "ServiceInfo.AddError" -> config.Services.kv[call.name].Err
      [] call.op = "MiddlewareInfo.AddError" -> config.Middlewares.kv[call.name].Err

Occurrences(list, x) == Cardinality({i \in DOMAIN list : list[i] = x})

AllErr ==
    {runtimeConfig.Routers.kv[k].Err : k \in Keys(runtimeConfig.Routers)} \cup
    {runtimeConfig.Services.kv[k].Err : k \in Keys(runtimeConfig.Services)} \cup
    {runtimeConfig.Middlewares.kv[k].Err : k \in Keys(runtimeConfig.Middlewares)}

\* no message is listed twice, and the message just reported is listed once
EachMessageOnce ==
    /\ \A list \in AllErr : \A e \in ErrMsgs : Occurrences(list, e) <= 1
    /\ lastCall.op \in AddErrorOps => Occurrences(ErrOf(runtimeConfig, lastCall), lastCall.err) = 1

\* reporting a message that is already listed leaves the list as it is, and
\* reporting a new one keeps what was listed, in its order
DuplicateLeavesErr ==
    lastCall'.op \in AddErrorOps =>
        LET old == ErrOf(runtimeConfig, lastCall')
            new == ErrOf(runtimeConfig', lastCall')
        IN  /\ lastCall'.err \in Range(old) => new = old
            /\ Len(new) >= Len(old)
            /\ SubSeq(new, 1, Len(old)) = old

\* C2: AddError with a message already in Err leaves Err unchanged, so Err
\* holds each distinct reported message exactly once.
C2_AddErrorIdempotent == []EachMessageOnce /\ [][DuplicateLeavesErr]_vars

\* both messages are listed and one of them was just reported again
C2_Witness ==
    /\ lastCall.op = "MiddlewareInfo.AddError"
    /\ Len(runtimeConfig.Middlewares.kv[lastCall.name].Err) = 2
    /\ runtimeConfig.Middlewares.kv[lastCall.name].Err[1] = lastCall.err

\* C3: when AddError returns from a call with critical = true, the RouterInfo
\* or ServiceInfo it was called on is disabled.
C3_CriticalDisables ==
    /\ (lastCall.op = "RouterInfo.AddError" /\ lastCall.critical)
           => runtimeConfig.Routers.kv[lastCall.name].Status = RuntimeStatusDisabled
    /\ (lastCall.op = "ServiceInfo.AddError" /\ lastCall.critical)
           => runtimeConfig.Services.kv[lastCall.name].Status = RuntimeStatusDisabled

---------------------------------------------------------------------------
(* GetRoutersByEntryPoints and GetTCPRoutersByEntryPoints *)

contains(entryPoints, entryPointName) ==
    \E i \in DOMAIN entryPoints : entryPoints[i] = entryPointName

\* entryPointsRouters[entryPointName][rtName] = rt, the inner map being made
\* when the entry point has none yet
PutRouter(entryPointsRouters, entryPointName, rtName, rt) ==
    LET inner == IF entryPointName \in DOMAIN entryPointsRouters
                 THEN entryPointsRouters[entryPointName]
                 ELSE <<>>
        added == [k \in DOMAIN inner \cup {rtName} |-> IF k = rtName THEN rt ELSE inner[k]]
    IN  [e \in DOMAIN entryPointsRouters \cup {entryPointName} |->
            IF e = entryPointName THEN added ELSE entryPointsRouters[e]]

\* a plausible slip: an unknown entry point ends the loop over eps
RECURSIVE ListUnderBreak(_, _, _, _, _)
ListUnderBreak(entryPointsRouters, eps, entryPoints, rtName, rt) ==
    IF eps = <<>> THEN entryPointsRouters
    ELSE IF ~contains(entryPoints, Head(eps)) THEN entryPointsRouters
    ELSE ListUnderBreak(PutRouter(entryPointsRouters, Head(eps), rtName, rt),
                        Tail(eps), entryPoints, rtName, rt)

\* the loop over eps, shared by the HTTP and the TCP function
RECURSIVE ListUnder(_, _, _, _, _)
ListUnder(entryPointsRouters, eps, entryPoints, rtName, rt) ==
    IF eps = <<>> THEN entryPointsRouters
    ELSE LET entryPointName == Head(eps)
             listed == IF ~contains(entryPoints, entryPointName) THEN entryPointsRouters
                       ELSE PutRouter(entryPointsRouters, entryPointName, rtName, rt)
         IN  ListUnder(listed, Tail(eps), entryPoints, rtName, rt)

\* a plausible slip: only the tls = true half of the filter
TLSMismatchHalf(rt, tls) == tls /\ rt.Router.TLS = NoTLS

\* (tls && rt.TLS == nil) || (!tls && rt.TLS != nil)
TLSMismatch(rt, tls) ==
    (tls /\ rt.Router.TLS = NoTLS) \/ (~tls /\ rt.Router.TLS /= NoTLS)

\* a plausible slip: the declared entry points are used even when there are none
EntryPointsOfDeclared(declared, entryPoints) == declared

\* eps := rt.EntryPoints; if len(eps) == 0 { eps = entryPoints }
EntryPointsOf(declared, entryPoints) ==
    IF Len(declared) = 0 THEN entryPoints ELSE declared

\* r.GetRoutersByEntryPoints(ctx, entryPoints, tls), r.Routers being iterated
\* in the given order
RECURSIVE GetRoutersByEntryPointsFrom(_, _, _, _, _)
GetRoutersByEntryPointsFrom(entryPointsRouters, r, order, entryPoints, tls) ==
    IF order = <<>> THEN entryPointsRouters
    ELSE LET rtName == Head(order)
             rt == r.Routers.kv[rtName]
             listed == IF TLSMismatch(rt, tls) THEN entryPointsRouters
                       ELSE ListUnder(entryPointsRouters,
                                      EntryPointsOf(rt.Router.EntryPoints, entryPoints),
                                      entryPoints, rtName, rt)
         IN  GetRoutersByEntryPointsFrom(listed, r, Tail(order), entryPoints, tls)

GetRoutersByEntryPoints(r, order, entryPoints, tls) ==
    GetRoutersByEntryPointsFrom(<<>>, r, order, entryPoints, tls)

\* r.GetTCPRoutersByEntryPoints(ctx, entryPoints), r.TCPRouters being iterated
\* in the given order
RECURSIVE GetTCPRoutersByEntryPointsFrom(_, _, _, _)
GetTCPRoutersByEntryPointsFrom(entryPointsRouters, r, order, entryPoints) ==
    IF order = <<>> THEN entryPointsRouters
    ELSE LET rtName == Head(order)
             rt == r.TCPRouters.kv[rtName]
             listed == ListUnder(entryPointsRouters,
                                 EntryPointsOf(rt.TCPRouter.EntryPoints, entryPoints),
                                 entryPoints, rtName, rt)
         IN  GetTCPRoutersByEntryPointsFrom(listed, r, Tail(order), entryPoints)

GetTCPRoutersByEntryPoints(r, order, entryPoints) ==
    GetTCPRoutersByEntryPointsFrom(<<>>, r, order, entryPoints)

\* what routers declare: nothing, a known entry point, two known ones, an
\* unknown one before a known one
DeclaredEntryPoints == {<<>>, <<"web">>, <<"web", "websecure">>, <<"other", "web">>}

\* the entry point sets handed to the two functions
SuppliedEntryPoints == {<<>>, <<"web">>, <<"web", "websecure">>}

EntryPointConfs ==
    {[HTTP |-> h, TCP |-> t] :
        h \in {NilHTTP} \cup
              {[isNil |-> FALSE, Routers |-> rts, Middlewares |-> <<>>,
                Services |-> (s_p :> LoadBalancerService)] :
                  rts \in MapsOver({a_p, b_p},
                                   {Router(eps, <<>>, s_, tls) :
                                        eps \in DeclaredEntryPoints, tls \in {NoTLS, WithTLS}})},
        t \in {NilTCP} \cup
              {[isNil |-> FALSE, Routers |-> rts, Services |-> (v_p :> TCPLoadBalancerService)] :
                  rts \in MapsOver({t_p, u_p},
                                   {TCPRouter(eps, v_) : eps \in DeclaredEntryPoints})}}

InitEntryPoints ==
    /\ conf \in EntryPointConfs
    /\ runtimeConfig = NilRuntimeConfiguration
    /\ populateCalls = 0
    /\ lastCall = NoCall
    /\ OutsideStoreIdle

GetRoutersByEntryPointsStep ==
    /\ ~runtimeConfig.isNil
    /\ \E entryPoints \in SuppliedEntryPoints, tls \in BOOLEAN,
          order \in Orders(Keys(runtimeConfig.Routers)) :
           lastCall' = [op |-> "GetRoutersByEntryPoints", entryPoints |-> entryPoints,
                        tls |-> tls,
                        result |-> GetRoutersByEntryPoints(runtimeConfig, order, entryPoints, tls)]
    /\ UNCHANGED <<storeVars, outsideStore>>

GetTCPRoutersByEntryPointsStep ==
    /\ ~runtimeConfig.isNil
    /\ \E entryPoints \in SuppliedEntryPoints,
          order \in Orders(Keys(runtimeConfig.TCPRouters)) :
           lastCall' = [op |-> "GetTCPRoutersByEntryPoints", entryPoints |-> entryPoints,
                        result |-> GetTCPRoutersByEntryPoints(runtimeConfig, order, entryPoints)]
    /\ UNCHANGED <<storeVars, outsideStore>>

NextEntryPoints ==
    \/ NewRuntimeConfigStep
    \/ GetRoutersByEntryPointsStep
    \/ GetTCPRoutersByEntryPointsStep

SpecEntryPoints == InitEntryPoints /\ [][NextEntryPoints]_vars

---------------------------------------------------------------------------
(* Properties of the entry point partitions *)

\* the router is listed under the entry point in the result of the last call
ListedUnder(rtName, entryPointName) ==
    /\ entryPointName \in DOMAIN lastCall.result
    /\ rtName \in DOMAIN lastCall.result[entryPointName]

\* C9: every router GetRoutersByEntryPoints(entryPoints, tls) returns, under
\* any entry point, is a router of the configuration whose TLS declaration
\* matches the flag: it has a TLS config if tls, and none if not tls.
C9_TLSPartition ==
    lastCall.op = "GetRoutersByEntryPoints" =>
        \A entryPointName \in DOMAIN lastCall.result :
            \A rtName \in DOMAIN lastCall.result[entryPointName] :
                /\ rtName \in Keys(runtimeConfig.Routers)
                /\ lastCall.result[entryPointName][rtName] = runtimeConfig.Routers.kv[rtName]
                /\ lastCall.tls <=> (runtimeConfig.Routers.kv[rtName].Router.TLS /= NoTLS)

\* a TLS router and a plain router are configured, and the call returned one
\* of them under web
C9_Witness ==
    /\ lastCall.op = "GetRoutersByEntryPoints"
    /\ Keys(runtimeConfig.Routers) = {a_p, b_p}
    /\ runtimeConfig.Routers.kv[a_p].Router.TLS = WithTLS
    /\ runtimeConfig.Routers.kv[b_p].Router.TLS = NoTLS
    /\ ~lastCall.tls
    /\ ListedUnder(b_p, "web")
    /\ DOMAIN lastCall.result["web"] = {b_p}

\* the routers the last call looked at, with what each declares
CalledOn ==
    IF lastCall.op = "GetRoutersByEntryPoints"
    THEN [k \in {n \in Keys(runtimeConfig.Routers) :
                    lastCall.tls <=> (runtimeConfig.Routers.kv[n].Router.TLS /= NoTLS)} |->
             runtimeConfig.Routers.kv[k].Router.EntryPoints]
    ELSE [k \in Keys(runtimeConfig.TCPRouters) |->
             runtimeConfig.TCPRouters.kv[k].TCPRouter.EntryPoints]

\* C10: in the result of either function a router that declares no entry
\* point is listed under every supplied entry point (for HTTP, if its TLS
\* declaration matches the flag), and a router that declares entry points is
\* listed under none it did not declare.
C10_EntryPointsInherited ==
    lastCall.op \in {"GetRoutersByEntryPoints", "GetTCPRoutersByEntryPoints"} =>
        \A rtName \in DOMAIN CalledOn :
            IF CalledOn[rtName] = <<>>
            THEN \A entryPointName \in Range(lastCall.entryPoints) :
                     ListedUnder(rtName, entryPointName)
            ELSE \A entryPointName \in DOMAIN lastCall.result :
                     ListedUnder(rtName, entryPointName)
                         => entryPointName \in Range(CalledOn[rtName])

\* t@p declares nothing and is listed under web and websecure; u@p declares
\* web and is listed under web alone
C10_Witness ==
    /\ lastCall.op = "GetTCPRoutersByEntryPoints"
    /\ lastCall.entryPoints = <<"web", "websecure">>
    /\ Keys(runtimeConfig.TCPRouters) = {t_p, u_p}
    /\ runtimeConfig.TCPRouters.kv[t_p].TCPRouter.EntryPoints = <<>>
    /\ runtimeConfig.TCPRouters.kv[u_p].TCPRouter.EntryPoints = <<"web">>
    /\ DOMAIN lastCall.result["web"] = {t_p, u_p}
    /\ DOMAIN lastCall.result["websecure"] = {t_p}

\* the entry points the last call listed the router under
ListedEntryPoints(rtName) == {e \in DOMAIN lastCall.result : rtName \in DOMAIN lastCall.result[e]}

\* C11: an entry point a router declares that is not in the supplied set drops
\* that association alone: no key of the result is outside the supplied set,
\* and every router the call looked at is listed under exactly those of its
\* entry points (the declared ones, or all the supplied ones if it declares
\* none) that are in the supplied set, whatever the other routers declare.
C11_UnknownEntryPointDropped ==
    lastCall.op \in {"GetRoutersByEntryPoints", "GetTCPRoutersByEntryPoints"} =>
        /\ DOMAIN lastCall.result \subseteq Range(lastCall.entryPoints)
        /\ \A rtName \in DOMAIN CalledOn :
               ListedEntryPoints(rtName) =
                   (IF CalledOn[rtName] = <<>> THEN Range(lastCall.entryPoints)
                    ELSE Range(CalledOn[rtName]) \cap Range(lastCall.entryPoints))

\* a@p declares the unknown entry point other before web and is listed under
\* web; b@p, declaring both known ones, is listed under both
C11_Witness ==
    /\ lastCall.op = "GetRoutersByEntryPoints"
    /\ lastCall.entryPoints = <<"web", "websecure">>
    /\ ~lastCall.tls
    /\ Keys(runtimeConfig.Routers) = {a_p, b_p}
    /\ runtimeConfig.Routers.kv[a_p].Router = Router(<<"other", "web">>, <<>>, s_, NoTLS)
    /\ runtimeConfig.Routers.kv[b_p].Router = Router(<<"web", "websecure">>, <<>>, s_, NoTLS)
    /\ DOMAIN lastCall.result = {"web", "websecure"}
    /\ DOMAIN lastCall.result["web"] = {a_p, b_p}
    /\ DOMAIN lastCall.result["websecure"] = {b_p}

---------------------------------------------------------------------------
(* ServiceInfo.UpdateServerStatus and ServiceInfo.GetAllStatus *)

\* how many maps returned by GetAllStatus the callers keep
MaxReturned == 2

\* server URLs and the statuses the health check reports
ServerURLs == {"http://10.0.0.1", "http://10.0.0.2"}
ServerStatuses == {"UP", "DOWN"}

\* everything but the server status and the configuration store
outsideStatus == <<proxyVars, chainVars, restVars>>

\* m[k] = v on a Go map
PutKey(m, k, v) == [x \in DOMAIN m \cup {k} |-> IF x = k THEN v ELSE m[x]]

\* delete(m, k) on a Go map
DeleteKey(m, k) == [x \in DOMAIN m \ {k} |-> m[x]]

\* the configuration store is not in use
StoreIdle ==
    /\ conf = [HTTP |-> NilHTTP, TCP |-> NilTCP]
    /\ runtimeConfig = NilRuntimeConfiguration
    /\ populateCalls = 0

\* s.UpdateServerStatus(server, status) under serverStatusMu.Lock: the heap
\* and the field serverStatus after the call
UpdateServerStatus(heap, ref, server, status) ==
    LET made == IF ref = 0 THEN Append(heap, <<>>) ELSE heap
        to == IF ref = 0 THEN Len(heap) + 1 ELSE ref
    IN  <<[made EXCEPT ![to] = PutKey(@, server, status)], to>>

\* a plausible slip: the live map is handed out
GetAllStatusLive(heap, ref) == <<heap, ref>>

\* s.GetAllStatus() under serverStatusMu.RLock: the heap after the call and
\* the address returned (0 for nil)
GetAllStatus(heap, ref) ==
    IF ref = 0 THEN <<heap, 0>>
    ELSE IF Cardinality(DOMAIN heap[ref]) = 0 THEN <<heap, 0>>
    ELSE <<Append(heap, [k \in DOMAIN heap[ref] |-> heap[ref][k]]), Len(heap) + 1>>

InitServerStatus ==
    /\ StoreIdle
    /\ lastCall = NoCall
    /\ StatusIdle
    /\ ProxyIdle
    /\ ChainIdle
    /\ RestIdle

UpdateServerStatusStep ==
    \E server \in ServerURLs, status \in ServerStatuses :
        LET after == UpdateServerStatus(maps, serverStatus, server, status)
        IN  /\ maps' = after[1]
            /\ serverStatus' = after[2]
            /\ statusSet' = PutKey(statusSet, server, status)
            /\ lastCall' = [op |-> "UpdateServerStatus", server |-> server, status |-> status]
            /\ UNCHANGED <<storeVars, returned, outsideStatus>>

GetAllStatusStep ==
    /\ Len(returned) < MaxReturned
    /\ LET after == GetAllStatus(maps, serverStatus)
       IN  /\ maps' = after[1]
           /\ returned' = IF after[2] = 0 THEN returned ELSE Append(returned, after[2])
           /\ lastCall' = [op |-> "GetAllStatus", result |-> after[2]]
    /\ UNCHANGED <<storeVars, serverStatus, statusSet, outsideStatus>>

\* a caller adds or changes an entry of a map it got from GetAllStatus
CallerPutsStep ==
    \E i \in DOMAIN returned, server \in ServerURLs, status \in ServerStatuses :
        /\ maps' = [maps EXCEPT ![returned[i]] = PutKey(@, server, status)]
        /\ lastCall' = [op |-> "caller: m[server] = status"]
        /\ UNCHANGED <<storeVars, serverStatus, returned, statusSet, outsideStatus>>

\* a caller deletes an entry of a map it got from GetAllStatus
CallerDeletesStep ==
    \E i \in DOMAIN returned : \E server \in DOMAIN maps[returned[i]] :
        /\ maps' = [maps EXCEPT ![returned[i]] = DeleteKey(@, server)]
        /\ lastCall' = [op |-> "caller: delete(m, server)"]
        /\ UNCHANGED <<storeVars, serverStatus, returned, statusSet, outsideStatus>>

NextServerStatus ==
    \/ UpdateServerStatusStep
    \/ GetAllStatusStep
    \/ CallerPutsStep
    \/ CallerDeletesStep

SpecServerStatus == InitServerStatus /\ [][NextServerStatus]_vars

---------------------------------------------------------------------------
(* Properties of the server status *)

\* the map behind the address, the nil map reading as the empty one
MapAt(ref) == IF ref = 0 THEN <<>> ELSE maps[ref]

\* the ServiceInfo holds what UpdateServerStatus set, and the map GetAllStatus
\* just returned holds the same in an object of its own
StoredIsWhatWasSet ==
    /\ DOMAIN MapAt(serverStatus) = DOMAIN statusSet
    /\ \A k \in DOMAIN statusSet : MapAt(serverStatus)[k] = statusSet[k]
    /\ lastCall.op = "GetAllStatus" =>
           /\ DOMAIN MapAt(lastCall.result) = DOMAIN statusSet
           /\ \A k \in DOMAIN statusSet : MapAt(lastCall.result)[k] = statusSet[k]
           /\ lastCall.result /= 0 => lastCall.result /= serverStatus

\* UpdateServerStatus leaves the maps returned earlier as they are
UpdateLeavesReturned ==
    lastCall'.op = "UpdateServerStatus" =>
        \A i \in DOMAIN returned : maps'[returned[i]] = maps[returned[i]]

\* C12: GetAllStatus returns a copy: what callers do to a returned map changes
\* neither the status the ServiceInfo stores nor what a later GetAllStatus
\* returns, and a later UpdateServerStatus changes no map returned earlier.
C12_GetAllStatusCopies == []StoredIsWhatWasSet /\ [][UpdateLeavesReturned]_vars

\* a caller emptied the map it got, the status of a server was updated after
\* that, and a second GetAllStatus returned both servers
C12_Witness ==
    /\ lastCall.op = "GetAllStatus"
    /\ Len(returned) = 2
    /\ DOMAIN maps[returned[1]] = {}
    /\ DOMAIN maps[returned[2]] = ServerURLs
    /\ maps[returned[2]] = maps[serverStatus]


\* ------------------------------------------------------------------
\* The TCP proxy: one run of Proxy.ServeTCP and its two connCopy goroutines
\* ------------------------------------------------------------------

\* what the clock may reach before any read deadline is armed
MaxTime == 2

\* the configured terminationDelay values: negative, zero, positive
TerminationDelays == {0 - 1, 0, 1}

\* conn, accepted from the client, and connBackend, dialled by ServeTCP
Conns == {"conn", "connBackend"}

\* go p.connCopy(conn, connBackend, errChan) and go p.connCopy(connBackend, conn, errChan)
Copies == {1, 2}

\* the dst parameter of each goroutine
Dst(c) == IF c = 1 THEN "conn" ELSE "connBackend"

\* the src parameter of each goroutine
Src(c) == IF c = 1 THEN "connBackend" ELSE "conn"

\* the goroutine that copies the other way
Other(c) == IF c = 1 THEN 2 ELSE 1

\* a deferred Close that is never registered
DeferredCloseSkipped(state) == state

\* defer conn.Close() and defer connBackend.Close(), run when ServeTCP returns
DeferredClose(state) == IF state = "open" THEN "closed" ELSE state

\* a ServeTCP that receives from errChan once only
AfterReceiveOnce(pc) == "returning"

\* err = <-errChan and then <-errChan: where ServeTCP is after a receive
AfterReceive(pc) == IF pc = "recv1" THEN "recv2" ELSE "returning"

\* a connCopy that goes on to the deadline whatever CloseWrite returned
AfterCloseWriteAlways(errClose) == "setDeadline"

\* if errClose != nil { ...; return }
AfterCloseWrite(errClose) == IF errClose THEN "done" ELSE "setDeadline"

\* a connCopy that arms the deadline on the connection it reads from
DeadlineTargetSrc(c) == Src(c)

\* dst.SetReadDeadline(...): the connection the deadline is armed on
DeadlineTarget(c) == Dst(c)

\* a Read on connection cn fails with a timeout once its deadline has passed
Expired(cn) == deadline[cn] /= <<>> /\ now >= deadline[cn][1]

\* what a goroutine has logged before it calls CloseWrite
NoCopyLog == [closeWrite |-> "none", setDeadline |-> "none", at |-> 0]

\* the step the proxy has just taken
ProxyEvent(op, c) == [op |-> op, copy |-> c]

\* a connection is accepted and handed to ServeTCP
InitProxy ==
    /\ StoreIdle
    /\ StatusIdle
    /\ ChainIdle
    /\ RestIdle
    /\ lastCall = NoCall
    /\ terminationDelay \in TerminationDelays
    /\ pcServe = "start"
    /\ pcCopy = [c \in Copies |-> "notStarted"]
    /\ fd = [cn \in Conns |-> IF cn = "conn" THEN "open" ELSE "none"]
    /\ halfClosed = {}
    /\ deadline = [cn \in Conns |-> <<>>]
    /\ peer = [cn \in Conns |-> "live"]
    /\ now = 0
    /\ copyLog = [c \in Copies |-> NoCopyLog]
    /\ received = <<>>

\* everything but the proxy
outsideProxy == <<storeVars, statusVars, chainVars, restVars>>

\* a ServeTCP that goes on after a failed resolve or dial
AfterDialGoesOn(outcome) == "recv1"

\* if err != nil { log.Errorf(...); return } after ResolveTCPAddr and DialTCP
AfterDial(outcome) == IF outcome = "dialed" THEN "recv1" ELSE "returning"

\* ServeTCP up to its first receive: resolve, dial, start the two goroutines
ServeTCPStartStep ==
    /\ pcServe = "start"
    /\ \E outcome \in {"resolveError", "dialError", "dialed"} :
          /\ pcServe' = AfterDial(outcome)
          /\ lastCall' = ProxyEvent(outcome, 0)
          /\ fd' = IF outcome = "dialed" THEN [fd EXCEPT !["connBackend"] = "open"] ELSE fd
          /\ pcCopy' = IF AfterDial(outcome) = "recv1" THEN [c \in Copies |-> "copy"]
                       ELSE pcCopy
    /\ UNCHANGED <<terminationDelay, halfClosed, deadline, peer, now, copyLog, received,
                   outsideProxy>>

\* io.Copy reads a chunk from src and writes it to dst
ForwardStep(c) ==
    /\ pcCopy[c] = "copy"
    /\ peer[Src(c)] = "live"
    /\ peer[Dst(c)] /= "reset"
    /\ ~Expired(Src(c))
    /\ lastCall' = ProxyEvent("forward", c)
    /\ UNCHANGED <<proxyVars, outsideProxy>>

\* io.Copy returns: EOF on src, a timed-out Read, or a failed Read or Write
CopyEndsStep(c) ==
    /\ pcCopy[c] = "copy"
    /\ \/ peer[Src(c)] /= "live"
       \/ peer[Dst(c)] = "reset"
       \/ Expired(Src(c))
    /\ pcCopy' = [pcCopy EXCEPT ![c] = "send"]
    /\ lastCall' = ProxyEvent("copyEnded", c)
    /\ UNCHANGED <<terminationDelay, pcServe, fd, halfClosed, deadline, peer, now, copyLog,
                   received, outsideProxy>>

\* errCh <- err meets a receive of ServeTCP on the unbuffered channel
SignalStep(c) ==
    /\ pcCopy[c] = "send"
    /\ pcServe \in {"recv1", "recv2"}
    /\ pcCopy' = [pcCopy EXCEPT ![c] = "closeWrite"]
    /\ pcServe' = AfterReceive(pcServe)
    /\ received' = Append(received, c)
    /\ lastCall' = ProxyEvent("signal", c)
    /\ UNCHANGED <<terminationDelay, fd, halfClosed, deadline, peer, now, copyLog,
                   outsideProxy>>

\* errClose := dst.CloseWrite(): it fails on a closed connection, and may fail on an open one
CloseWriteStep(c) ==
    /\ pcCopy[c] = "closeWrite"
    /\ \E errClose \in BOOLEAN :
          /\ fd[Dst(c)] /= "open" => errClose
          /\ halfClosed' = IF errClose THEN halfClosed ELSE halfClosed \cup {Dst(c)}
          /\ copyLog' = [copyLog EXCEPT ![c].closeWrite = IF errClose THEN "failed" ELSE "ok",
                                        ![c].at = now]
          /\ pcCopy' = [pcCopy EXCEPT ![c] = AfterCloseWrite(errClose)]
    /\ lastCall' = ProxyEvent("closeWrite", c)
    /\ UNCHANGED <<terminationDelay, pcServe, fd, deadline, peer, now, received, outsideProxy>>

\* if p.terminationDelay >= 0 { dst.SetReadDeadline(time.Now().Add(p.terminationDelay)) }
SetReadDeadlineStep(c) ==
    /\ pcCopy[c] = "setDeadline"
    /\ IF terminationDelay >= 0
       THEN \E err \in BOOLEAN :
               /\ fd[DeadlineTarget(c)] /= "open" => err
               /\ deadline' = IF err THEN deadline
                              ELSE [deadline EXCEPT ![DeadlineTarget(c)] = <<now + terminationDelay>>]
               /\ copyLog' = [copyLog EXCEPT ![c].setDeadline = IF err THEN "failed" ELSE "ok",
                                             ![c].at = now]
       ELSE /\ copyLog' = [copyLog EXCEPT ![c].setDeadline = "skipped", ![c].at = now]
            /\ UNCHANGED deadline
    /\ pcCopy' = [pcCopy EXCEPT ![c] = "done"]
    /\ lastCall' = ProxyEvent("setReadDeadline", c)
    /\ UNCHANGED <<terminationDelay, pcServe, fd, halfClosed, peer, now, received, outsideProxy>>

\* ServeTCP returns: the deferred Close calls run
ServeTCPReturnStep ==
    /\ pcServe = "returning"
    /\ fd' = [cn \in Conns |-> DeferredClose(fd[cn])]
    /\ pcServe' = "returned"
    /\ lastCall' = ProxyEvent("return", 0)
    /\ UNCHANGED <<terminationDelay, pcCopy, halfClosed, deadline, peer, now, copyLog, received,
                   outsideProxy>>

\* the remote end of a connection closes its side or resets the connection
PeerEndsStep(cn) ==
    /\ fd[cn] = "open"
    /\ peer[cn] = "live"
    /\ \E how \in {"eof", "reset"} : peer' = [peer EXCEPT ![cn] = how]
    /\ lastCall' = ProxyEvent("peerEnds", 0)
    /\ UNCHANGED <<terminationDelay, pcServe, pcCopy, fd, halfClosed, deadline, now, copyLog,
                   received, outsideProxy>>

\* time passes; the clock stops once nothing waits for it
TickStep ==
    /\ pcServe /= "returned"
    /\ \/ now < MaxTime
       \/ \E cn \in Conns : deadline[cn] /= <<>> /\ now < deadline[cn][1]
    /\ now' = now + 1
    /\ lastCall' = ProxyEvent("tick", 0)
    /\ UNCHANGED <<terminationDelay, pcServe, pcCopy, fd, halfClosed, deadline, peer, copyLog,
                   received, outsideProxy>>

NextProxy ==
    \/ ServeTCPStartStep
    \/ \E c \in Copies : ForwardStep(c)
    \/ \E c \in Copies : CopyEndsStep(c)
    \/ \E c \in Copies : SignalStep(c)
    \/ \E c \in Copies : CloseWriteStep(c)
    \/ \E c \in Copies : SetReadDeadlineStep(c)
    \/ ServeTCPReturnStep
    \/ \E cn \in Conns : PeerEndsStep(cn)
    \/ TickStep

SpecProxy == InitProxy /\ [][NextProxy]_vars

\* the goroutines, ServeTCP and the clock run; the peers need not do anything
ProxyFairness ==
    /\ \A c \in Copies : WF_vars(CopyEndsStep(c))
    /\ \A c \in Copies : WF_vars(SignalStep(c))
    /\ \A c \in Copies : WF_vars(CloseWriteStep(c))
    /\ \A c \in Copies : WF_vars(SetReadDeadlineStep(c))
    /\ WF_vars(ServeTCPStartStep)
    /\ WF_vars(ServeTCPReturnStep)
    /\ WF_vars(TickStep)

SpecProxyFair == InitProxy /\ [][NextProxy]_vars /\ ProxyFairness


\* the goroutine has sent its result on errChan and ServeTCP has received it
Signaled(c) ==
    /\ pcCopy[c] \in {"closeWrite", "setDeadline", "done"}
    /\ \E i \in 1..Len(received) : received[i] = c

\* the backend dial has succeeded
Dialed == fd["connBackend"] /= "none"

\* C13: once the backend dial has succeeded, ServeTCP returns only after both
\* copy goroutines have signaled their completion on errChan
C13_ReturnsAfterBothSignals ==
    (pcServe \in {"returning", "returned"} /\ Dialed) =>
        /\ \A c \in Copies : Signaled(c)
        /\ Len(received) = 2

\* ServeTCP has returned after a dial that succeeded, one goroutine still
\* being before its CloseWrite
C13_Witness ==
    /\ pcServe = "returned"
    /\ Dialed
    /\ received = <<2, 1>>
    /\ pcCopy[1] = "closeWrite"

\* C14: whatever path ServeTCP returns by, the client connection is closed,
\* and so is the backend connection once the dial has succeeded
C14_BothClosedOnReturn ==
    pcServe = "returned" =>
        /\ fd["conn"] = "closed"
        /\ fd["connBackend"] = (IF Dialed THEN "closed" ELSE "none")

\* ServeTCP has returned after the two goroutines ended, both connections closed
C14_Witness ==
    /\ pcServe = "returned"
    /\ Dialed
    /\ fd = [cn \in Conns |-> "closed"]
    /\ \A c \in Copies : pcCopy[c] = "done"

\* C33: when resolving the address or dialing the backend fails, ServeTCP
\* logs the error and returns at once: no copy goroutine is started, nothing
\* is forwarded or received from errChan, the accepted connection is closed
\* on return, and the return carries no error
C33_DialFailureEndsServeTCP ==
    /\ lastCall.op \in {"resolveError", "dialError"} => pcServe = "returning"
    /\ \A c \in Copies : lastCall = ProxyEvent("forward", c) => Dialed
    /\ (pcServe \in {"returning", "returned"} /\ ~Dialed) =>
          /\ \A c \in Copies : pcCopy[c] = "notStarted"
          /\ received = <<>>
          /\ halfClosed = {}
    /\ (pcServe = "returned" /\ ~Dialed) =>
          /\ fd["conn"] = "closed"
          /\ fd["connBackend"] = "none"
          /\ lastCall.op \in {"return", "tick"}

\* ServeTCP has returned after a failed dial, the accepted connection closed
C33_Witness ==
    /\ pcServe = "returned"
    /\ ~Dialed
    /\ fd["conn"] = "closed"
    /\ lastCall = ProxyEvent("return", 0)


\* goroutine c has left io.Copy and sent its result
FinishedReading(c) == pcCopy[c] \in {"closeWrite", "setDeadline", "done"}

\* a read deadline is armed on the destination of goroutine c
Armed(c) == deadline[Dst(c)] /= <<>>

\* C15 as stated: with a terminationDelay that is not negative, a goroutine
\* that has run to its end while ServeTCP still held both connections open
\* has armed a read deadline on its destination, whether its CloseWrite
\* succeeded or failed
C15_DeadlineAlwaysArmed ==
    \A c \in Copies :
        (pcCopy[c] = "done" /\ pcServe \in {"recv1", "recv2"}
            /\ terminationDelay >= 0
            /\ copyLog[c].setDeadline /= "failed") => Armed(c)

\* C15, amended: a goroutine half-closes its destination only after it has
\* finished reading and signaled, and a read deadline is armed on its
\* destination exactly when its CloseWrite succeeded, terminationDelay is not
\* negative and SetReadDeadline succeeded; the deadline is then the time of
\* the call plus terminationDelay. After a failed CloseWrite the goroutine
\* returns without arming any deadline.
C15_DeadlineOnlyAfterHalfClose ==
    \A c \in Copies :
        /\ Dst(c) \in halfClosed <=> copyLog[c].closeWrite = "ok"
        /\ copyLog[c].closeWrite /= "none" => FinishedReading(c)
        /\ Armed(c) <=>
              /\ pcCopy[c] = "done"
              /\ copyLog[c].closeWrite = "ok"
              /\ terminationDelay >= 0
              /\ copyLog[c].setDeadline = "ok"
        /\ Armed(c) => deadline[Dst(c)] = <<copyLog[c].at + terminationDelay>>
        /\ copyLog[c].closeWrite = "failed" => copyLog[c].setDeadline = "none"

\* the goroutine reading from the client has half-closed connBackend and armed
\* its deadline one tick ahead while the other goroutine still copies
C15_Witness ==
    /\ pcCopy = <<"copy", "done">>
    /\ terminationDelay = 1
    /\ "connBackend" \in halfClosed
    /\ copyLog[2].closeWrite = "ok"
    /\ deadline["connBackend"] = <<now + 1>>
    /\ lastCall = ProxyEvent("setReadDeadline", 2)


DelayElapsedSince(c) ==
    /\ pcCopy[c] = "done"
    /\ terminationDelay >= 0
    /\ now >= copyLog[c].at + terminationDelay

\* the step just taken forwarded a chunk in the direction of goroutine c
Forwarded(c) == lastCall = ProxyEvent("forward", c)

\* C17 as stated: once terminationDelay has elapsed after one direction
\* finished, nothing is forwarded in the opposite direction any more
C17_NothingAfterDelay ==
    \A c \in Copies : Forwarded(c) => ~DelayElapsedSince(Other(c))

\* C17, amended: after one direction has finished, the connections are only
\* half-closed and the opposite direction can still forward as long as its
\* source has data and the deadline has not passed; once the read deadline
\* that the finished goroutine armed has passed, nothing is forwarded in the
\* opposite direction
C17_NothingAfterArmedDeadline ==
    \A c \in Copies :
        /\ (pcCopy[c] = "copy" /\ FinishedReading(Other(c))) =>
              /\ \A cn \in Conns : fd[cn] = "open"
              /\ (peer[Src(c)] = "live" /\ peer[Dst(c)] /= "reset" /\ ~Expired(Src(c)))
                    => ENABLED ForwardStep(c)
        /\ Forwarded(c) =>
              ~(copyLog[Other(c)].setDeadline = "ok" /\ DelayElapsedSince(Other(c)))

\* the client has closed, connBackend is half-closed with a deadline one tick
\* ahead, and a chunk from the backend has just been forwarded to the client
C17_Witness ==
    /\ Forwarded(1)
    /\ peer["conn"] = "eof"
    /\ pcCopy[2] = "done"
    /\ "connBackend" \in halfClosed
    /\ terminationDelay = 1
    /\ deadline["connBackend"] = <<now + 1>>


\* ------------------------------------------------------------------
\* The handler chain that buildBalancerMiddlewares nests around the
\* forwarding proxy, and one request through it
\* ------------------------------------------------------------------

\* the most servers a backend has here
MaxServers == 2

\* the largest configured Retry.Attempts here
MaxAttempts == 2

\* globalConfiguration.Retry: nil, or a Retry with its Attempts
Retries ==
    {[isNil |-> TRUE, Attempts |-> 0]}
        \cup {[isNil |-> FALSE, Attempts |-> a] : a \in (0 - 1)..MaxAttempts}

\* what buildBalancerMiddlewares looks at in the frontend, the backend, the
\* global configuration and the server
MiddlewareConfs ==
    [rateLimit : BOOLEAN, maxConn : BOOLEAN, retry : Retries, buffering : BOOLEAN,
     circuitBreaker : BOOLEAN, accessLogger : BOOLEAN, countServers : 0..MaxServers]

\* the constructors that can return an error
Builders == {"load-balancer", "rate-limit", "max-connections", "buffering", "circuit-breaker"}

\* return nil, nil, err
Failed == [err |-> TRUE, layers |-> <<>>, retryAttempts |-> 0]

\* a handler of the given kind whose next handler is lb: layers are listed outermost first
Wrap(kind, lb) == [lb EXCEPT !.layers = <<kind>> \o @]

\* s.wrapHTTPHandlerWithAccessLog(handler, ...)
wrapHTTPHandlerWithAccessLog(m, lb) == IF m.accessLogger THEN Wrap("access-log", lb) ELSE lb

\* buildLoadBalancer: the balancer over fwd, or over the access log's
\* SaveFrontend and SaveBackend over fwd
buildLoadBalancer(m, failing) ==
    IF failing = "load-balancer" THEN Failed
    ELSE [err |-> FALSE,
          layers |-> <<"load-balancer">>
                        \o (IF m.accessLogger THEN <<"save-frontend", "save-backend">> ELSE <<>>)
                        \o <<"forwarding-proxy">>,
          retryAttempts |-> 0]

\* var lb http.Handler = middlewares.NewEmptyBackendHandler(balancer)
WithEmptyBackend(lb) == IF lb.err THEN lb ELSE Wrap("empty-backend", lb)

\* the Rate Limit block
WithRateLimit(m, failing, lb) ==
    IF lb.err \/ ~m.rateLimit THEN lb
    ELSE IF failing = "rate-limit" THEN Failed
    ELSE wrapHTTPHandlerWithAccessLog(m, Wrap("tracing", Wrap("rate-limit", lb)))

\* the Max Connections block
WithMaxConn(m, failing, lb) ==
    IF lb.err \/ ~m.maxConn THEN lb
    ELSE IF failing = "max-connections" THEN Failed
    ELSE wrapHTTPHandlerWithAccessLog(m, Wrap("max-connections", lb))

\* a retry that is always given the configured Attempts
RetryAttemptsConfigured(attempts, countServers) == attempts

\* retryAttempts := countServers; if retry.Attempts > 0 { retryAttempts = retry.Attempts }
RetryAttempts(attempts, countServers) == IF attempts > 0 THEN attempts ELSE countServers

\* buildRetryMiddleware: middlewares.NewRetry(retryAttempts, handler, retryListeners)
buildRetryMiddleware(lb, retry, countServers) ==
    [Wrap("retry", lb) EXCEPT !.retryAttempts = RetryAttempts(retry.Attempts, countServers)]

\* the Retry block
WithRetry(m, lb) ==
    IF lb.err \/ m.retry.isNil THEN lb
    ELSE Wrap("tracing", buildRetryMiddleware(lb, m.retry, m.countServers))

\* the Buffering block
WithBuffering(m, failing, lb) ==
    IF lb.err \/ ~m.buffering THEN lb
    ELSE IF failing = "buffering" THEN Failed
    ELSE Wrap("buffering", lb)

\* the Circuit Breaker block
WithCircuitBreaker(m, failing, lb) ==
    IF lb.err \/ ~m.circuitBreaker THEN lb
    ELSE IF failing = "circuit-breaker" THEN Failed
    ELSE Wrap("tracing", Wrap("circuit-breaker", lb))

\* the two limiters built the other way round
AdmissionSwapped(m, failing, lb) == WithRateLimit(m, failing, WithMaxConn(m, failing, lb))

\* Rate Limit, then Max Connections around it
Admission(m, failing, lb) == WithMaxConn(m, failing, WithRateLimit(m, failing, lb))

\* Buffering built first and Retry around it
BufferingThenRetry(m, failing, lb) == WithRetry(m, WithBuffering(m, failing, lb))

\* Retry, then Buffering around it
RetryThenBuffering(m, failing, lb) == WithBuffering(m, failing, WithRetry(m, lb))

\* buildBalancerMiddlewares: each block takes the handler built so far as its next handler
buildBalancerMiddlewares(m, failing) ==
    WithCircuitBreaker(m, failing,
        RetryThenBuffering(m, failing,
            Admission(m, failing,
                WithEmptyBackend(buildLoadBalancer(m, failing)))))


\* no request has been served yet
NoRequest ==
    [pc |-> "idle", at |-> 0, tries |-> 0, outcomes |-> <<>>, trace |-> <<>>,
     buffered |-> FALSE, result |-> "none"]

\* everything but the handler chain
outsideChain == <<storeVars, statusVars, proxyVars, restVars>>

\* a frontend and its backend are about to get their handler
InitChain ==
    /\ StoreIdle
    /\ StatusIdle
    /\ ProxyIdle
    /\ RestIdle
    /\ lastCall = NoCall
    /\ mw \in MiddlewareConfs
    /\ chain = <<>>
    /\ req = <<>>

\* buildBalancerMiddlewares is called; any one constructor may report an error
BuildStep ==
    /\ chain = <<>>
    /\ \E failing \in Builders \cup {"none"} :
          /\ chain' = buildBalancerMiddlewares(mw, failing)
          /\ lastCall' = [op |-> "buildBalancerMiddlewares", failing |-> failing]
    /\ req' = NoRequest
    /\ UNCHANGED <<mw, outsideChain>>

\* a request reaches the outermost handler
ServeHTTPStep ==
    /\ chain /= <<>>
    /\ ~chain.err
    /\ req.pc = "idle"
    /\ req' = [req EXCEPT !.pc = "in", !.at = 1]
    /\ lastCall' = [op |-> "ServeHTTP"]
    /\ UNCHANGED <<mw, chain, outsideChain>>

\* the handler the request is at
Layer == chain.layers[req.at]

\* the handlers that may answer the request themselves
Gates == {"rate-limit", "max-connections", "circuit-breaker"}

\* where the retry handler is in the chain
RetryIndex == CHOOSE i \in 1..Len(chain.layers) : chain.layers[i] = "retry"

\* the handler takes the request and calls its next handler
PassStep ==
    /\ chain /= <<>>
    /\ req.pc = "in"
    /\ Layer /= "forwarding-proxy"
    /\ Layer = "empty-backend" => mw.countServers > 0
    /\ req' = [req EXCEPT !.at = @ + 1,
                          !.trace = Append(@, Layer),
                          !.tries = IF Layer = "retry" THEN 1 ELSE @,
                          !.buffered = @ \/ Layer = "buffering"]
    /\ lastCall' = [op |-> "pass"]
    /\ UNCHANGED <<mw, chain, outsideChain>>

\* the handler answers the request itself: a limiter that is exceeded, an open
\* circuit breaker, the empty-backend handler of a backend without servers
RefuseStep ==
    /\ chain /= <<>>
    /\ req.pc = "in"
    /\ \/ Layer \in Gates
       \/ Layer = "empty-backend" /\ mw.countServers = 0
    /\ req' = [req EXCEPT !.pc = "done",
                          !.trace = Append(@, Layer),
                          !.result = "refused"]
    /\ lastCall' = [op |-> "refuse"]
    /\ UNCHANGED <<mw, chain, outsideChain>>

\* the retry handler goes round again after a round trip without a response,
\* as long as it has attempts left
ShouldRetry(outcome) ==
    /\ req.tries >= 1
    /\ outcome = "netError"
    /\ req.tries < chain.retryAttempts

\* the forwarding proxy makes the round trip to a server; the answer, or the
\* failure, goes back up to the retry handler if there is one
RoundTripStep ==
    /\ chain /= <<>>
    /\ req.pc = "in"
    /\ Layer = "forwarding-proxy"
    /\ \E outcome \in {"response", "netError"} :
          /\ req' = IF ShouldRetry(outcome)
                    THEN [req EXCEPT !.at = RetryIndex + 1,
                                     !.tries = @ + 1,
                                     !.trace = Append(@, Layer),
                                     !.outcomes = Append(@, outcome)]
                    ELSE [req EXCEPT !.pc = "done",
                                     !.trace = Append(@, Layer),
                                     !.outcomes = Append(@, outcome),
                                     !.result = outcome]
          /\ lastCall' = [op |-> "roundTrip", outcome |-> outcome]
    /\ UNCHANGED <<mw, chain, outsideChain>>

NextChain ==
    \/ BuildStep
    \/ ServeHTTPStep
    \/ PassStep
    \/ RefuseStep
    \/ RoundTripStep

SpecChain == InitChain /\ [][NextChain]_vars

\* the handlers of the chain that the ordering is about, outermost first
Named ==
    {"circuit-breaker", "buffering", "retry", "max-connections", "rate-limit",
     "load-balancer", "forwarding-proxy"}

\* the chain without the tracing, access log and empty-backend wrappers
SelectNamed(layers) == SelectSeq(layers, LAMBDA k : k \in Named)

\* the chain was built, without error, with every resilience middleware configured
BuiltWithAll ==
    /\ chain /= <<>>
    /\ ~chain.err
    /\ mw.rateLimit /\ mw.maxConn /\ ~mw.retry.isNil /\ mw.buffering /\ mw.circuitBreaker

\* how often the request has entered a handler of the given kind
Entered(kind) == Len(SelectSeq(req.trace, LAMBDA k : k = kind))

\* C18 as stated: with every resilience middleware configured the chain is,
\* outer to inner, rate-limit, max-connections, retry, buffering,
\* circuit-breaker, load-balancer, forwarding proxy
C18_LimitersOutermost ==
    BuiltWithAll =>
        SelectNamed(chain.layers) =
            <<"rate-limit", "max-connections", "retry", "buffering", "circuit-breaker",
              "load-balancer", "forwarding-proxy">>

\* C18, amended: with every resilience middleware configured the chain is,
\* outer to inner, circuit-breaker, buffering, retry, max-connections,
\* rate-limit, load-balancer, forwarding proxy; a request enters the handlers
\* in that order, and the two limiters, being inside retry, see every attempt
\* of the retry handler and not only the client request
C18_LimitersInsideRetry ==
    BuiltWithAll =>
        /\ SelectNamed(chain.layers) =
              <<"circuit-breaker", "buffering", "retry", "max-connections", "rate-limit",
                "load-balancer", "forwarding-proxy">>
        /\ Entered("circuit-breaker") <= 1 /\ Entered("buffering") <= 1 /\ Entered("retry") <= 1
        /\ Entered("max-connections") >= 1 => Entered("retry") = 1
        /\ Entered("forwarding-proxy") <= Entered("rate-limit")
        /\ Entered("rate-limit") <= Entered("max-connections")
        /\ Entered("max-connections") \in {req.tries - 1, req.tries}
        /\ Entered("max-connections") >= Len(req.outcomes)

\* a request answered at its second attempt: the limiters were entered twice,
\* the circuit breaker, buffering and retry once
C18_Witness ==
    /\ BuiltWithAll
    /\ req.pc = "done"
    /\ req.outcomes = <<"netError", "response">>
    /\ SelectSeq(req.trace, LAMBDA k : k \in Named) =
          <<"circuit-breaker", "buffering", "retry",
            "max-connections", "rate-limit", "load-balancer", "forwarding-proxy",
            "max-connections", "rate-limit", "load-balancer", "forwarding-proxy">>


\* where a handler of the given kind is in the chain, 0 if it is not there
IndexOf(kind) ==
    IF \E i \in 1..Len(chain.layers) : chain.layers[i] = kind
    THEN CHOOSE i \in 1..Len(chain.layers) : chain.layers[i] = kind
    ELSE 0

\* the chain was built, without error, with retry and buffering configured
BuiltWithRetryAndBuffering ==
    /\ chain /= <<>>
    /\ ~chain.err
    /\ ~mw.retry.isNil
    /\ mw.buffering

\* C19: with both retry and buffering configured, the retry handler is nested
\* inside the buffering handler: a request enters buffering first and once,
\* and every attempt of the retry handler is made on the buffered request
C19_RetryInsideBuffering ==
    BuiltWithRetryAndBuffering =>
        /\ 0 < IndexOf("buffering")
        /\ IndexOf("buffering") < IndexOf("retry")
        /\ Entered("buffering") <= 1
        /\ Entered("retry") <= Entered("buffering")
        /\ req.tries >= 1 => req.buffered
        /\ Len(req.outcomes) >= 1 => req.buffered /\ Entered("buffering") = 1

\* a request whose second attempt was answered, retry and buffering being the
\* only middlewares: buffering was entered once, before the retry handler
C19_Witness ==
    /\ BuiltWithRetryAndBuffering
    /\ ~mw.rateLimit /\ ~mw.maxConn /\ ~mw.circuitBreaker /\ ~mw.accessLogger
    /\ req.pc = "done"
    /\ req.tries = 2
    /\ req.trace =
          <<"buffering", "tracing", "retry",
            "empty-backend", "load-balancer", "forwarding-proxy",
            "empty-backend", "load-balancer", "forwarding-proxy">>

\* the chain was built, without error, with retry configured
BuiltWithRetry ==
    /\ chain /= <<>>
    /\ ~chain.err
    /\ ~mw.retry.isNil

\* C20: the retry handler is given Retry.Attempts when that is greater than 0
\* and the number of servers of the backend otherwise; the request makes at
\* most that many round trips, and each round trip but the last one failed
\* without a response
C20_RetryAttemptsBound ==
    BuiltWithRetry =>
        /\ chain.retryAttempts =
              (IF mw.retry.Attempts > 0 THEN mw.retry.Attempts ELSE mw.countServers)
        /\ Len(req.outcomes) <= chain.retryAttempts
        /\ \A i \in 1..(Len(req.outcomes) - 1) : req.outcomes[i] = "netError"
        /\ req.pc = "done" => req.result \in {"refused", "response", "netError"}
        /\ (req.pc = "done" /\ req.result = "netError") =>
               Len(req.outcomes) = chain.retryAttempts

\* no Attempts configured and two servers: the request was tried twice, both
\* round trips failed, and the retry handler gave up
C20_Witness ==
    /\ BuiltWithRetry
    /\ mw.retry.Attempts = 0
    /\ mw.countServers = 2
    /\ chain.retryAttempts = 2
    /\ req.pc = "done"
    /\ req.outcomes = <<"netError", "netError">>


\* ------------------------------------------------------------------
\* The TCP service Manager: BuildTCP, as the specification and
\* TestManager_Build describe it
\* ------------------------------------------------------------------

\* the byte '.', that separates provider and name in the Manager's service names
Dot == 46

\* the byte ':', that separates host and port in a server address
Colon == 58

\* the runtime configuration store, the server status, the proxy and the chain are not set up
CoreIdle == StoreIdle /\ StatusIdle /\ ProxyIdle /\ ChainIdle

\* index of the first sep in s from i on, 0 if there is none
RECURSIVE IndexOfByte(_, _, _)
IndexOfByte(s, sep, i) ==
    IF i > Len(s) THEN 0
    ELSE IF s[i] = sep THEN i
    ELSE IndexOfByte(s, sep, i + 1)

\* strings.Split(s, sep) for a one-byte sep
RECURSIVE SplitOn(_, _)
SplitOn(s, sep) ==
    LET i == IndexOfByte(s, sep, 1)
    IN  IF i = 0 THEN <<s>>
        ELSE <<SubSeq(s, 1, i - 1)>> \o SplitOn(SubSeq(s, i + 1, Len(s)), sep)

\* service names: "s", "t", "p.s", "p.t", "q.s"
svc_s == <<115>>
svc_t == <<116>>
svc_ps == <<112, 46, 115>>
svc_pt == <<112, 46, 116>>
svc_qs == <<113, 46, 115>>

\* the providers a context can carry: "p", "q"
prov_p == <<112>>
prov_q == <<113>>

\* server addresses: "h:8", "1:8" (with port), "h", "1" (without)
addr_h8 == <<104, 58, 56>>
addr_18 == <<49, 58, 56>>
addr_h == <<104>>
addr_1 == <<49>>

\* a context without provider
NoProvider == <<>>

\* a GetQualifiedName that qualifies every name when the context has a provider
GetQualifiedNameAlways(ctxProvider, elementName) ==
    IF ctxProvider /= NoProvider THEN ctxProvider \o <<Dot>> \o elementName ELSE elementName

\* internal.GetQualifiedName(ctx, elementName): a name without provider gets
\* the provider of the context, if the context has one
GetQualifiedName(ctxProvider, elementName) ==
    IF Len(SplitOn(elementName, Dot)) = 1 /\ ctxProvider /= NoProvider
    THEN ctxProvider \o <<Dot>> \o elementName
    ELSE elementName

\* net.SplitHostPort(address) reports "missing port in address"
MissingPort(address) == IndexOfByte(address, Colon, 1) = 0

\* the first server address without port, <<>> if every address has one
RECURSIVE FirstMissingPort(_)
FirstMissingPort(servers) ==
    IF servers = <<>> THEN <<>>
    ELSE IF MissingPort(Head(servers)) THEN Head(servers)
    ELSE FirstMissingPort(Tail(servers))

\* an error that names the service as the caller wrote it
ErrorServiceAsAsked(serviceName, qualifiedName) == serviceName

\* the service that the error of BuildTCP names
ErrorService(serviceName, qualifiedName) == qualifiedName

NoError == [kind |-> "none"]

\* manager.BuildTCP(ctx, serviceName): the error it returns
BuildTCP(configs, ctxProvider, serviceName) ==
    LET qualifiedName == GetQualifiedName(ctxProvider, serviceName)
    IN  IF qualifiedName \notin DOMAIN configs
        THEN [kind |-> "doesNotExist", service |-> qualifiedName]
        ELSE LET bad == FirstMissingPort(configs[qualifiedName])
             IN  IF bad /= <<>>
                 THEN [kind |-> "missingPort",
                       service |-> ErrorService(serviceName, qualifiedName),
                       address |-> bad]
                 ELSE NoError

\* the server lists of a TCP load balancer here
ServerLists ==
    {<<>>, <<addr_h8>>, <<addr_18>>, <<addr_h>>, <<addr_1>>, <<addr_h8, addr_1>>,
     <<addr_h, addr_18>>}

\* the TCPServices maps handed to NewManager: the services of provider p,
\* alone or next to a service registered without provider
ManagerConfigs ==
    {[n \in {svc_ps, svc_pt} |-> IF n = svc_ps THEN a ELSE b] : a, b \in ServerLists}
        \cup {[n \in {svc_ps, svc_s} |-> IF n = svc_ps THEN a ELSE b] : a, b \in ServerLists}

\* everything but the Manager
outsideManager ==
    <<storeVars, statusVars, proxyVars, chainVars, balancer, publication, merging, listener,
      stats, forwardAuth,
      theServer, locking, lbs, whitelist, authRequest, histogram>>

\* NewManager(&config.RuntimeConfiguration{TCPServices: configs})
InitManager ==
    /\ CoreIdle
    /\ RestIdleBut("manager")
    /\ lastCall = NoCall
    /\ \E configs \in ManagerConfigs : manager = [configs |-> configs, built |-> {}]

\* one call of BuildTCP, from a context with or without provider
BuildTCPStep ==
    \E ctxProvider \in {NoProvider, prov_p, prov_q},
       serviceName \in {svc_s, svc_t, svc_ps, svc_pt, svc_qs} :
        LET err == BuildTCP(manager.configs, ctxProvider, serviceName)
        IN  /\ lastCall' = [op |-> "BuildTCP", ctxProvider |-> ctxProvider,
                            serviceName |-> serviceName, err |-> err]
            /\ manager' = IF err = NoError
                          THEN [manager EXCEPT
                                   !.built = @ \cup {GetQualifiedName(ctxProvider, serviceName)}]
                          ELSE manager
            /\ UNCHANGED outsideManager

NextManager == BuildTCPStep

SpecManager == InitManager /\ [][NextManager]_vars

\* the name under which C22 says the last call looks the service up
ResolvedName ==
    IF Len(SplitOn(lastCall.serviceName, Dot)) > 1 THEN lastCall.serviceName
    ELSE IF lastCall.ctxProvider /= NoProvider
         THEN lastCall.ctxProvider \o <<Dot>> \o lastCall.serviceName
    ELSE lastCall.serviceName

\* C21: BuildTCP of a service one of whose server addresses has no port fails
\* with the error naming exactly the qualified service and that address; a
\* service whose addresses all have a port builds without error, whatever the
\* other services of the configuration are and whatever was built before
C21_MissingPortNamesService ==
    (lastCall.op = "BuildTCP" /\ ResolvedName \in DOMAIN manager.configs) =>
        LET servers == manager.configs[ResolvedName]
            without == {i \in 1..Len(servers) : \A j \in 1..Len(servers[i]) : servers[i][j] /= Colon}
        IN  IF without = {}
            THEN lastCall.err = NoError /\ ResolvedName \in manager.built
            ELSE /\ lastCall.err.kind = "missingPort"
                 /\ lastCall.err.service = ResolvedName
                 /\ \E i \in without :
                       /\ lastCall.err.address = servers[i]
                       /\ \A j \in without : i <= j

\* "s" asked for with provider p in the context: p.s has the address "h"
\* without port and fails, while p.t, built before, stays built
C21_Witness ==
    /\ lastCall.op = "BuildTCP"
    /\ lastCall.serviceName = svc_s
    /\ lastCall.ctxProvider = prov_p
    /\ lastCall.err = [kind |-> "missingPort", service |-> svc_ps, address |-> addr_h]
    /\ svc_pt \in manager.built
    /\ svc_ps \notin manager.built

\* C22: a name that carries a provider is looked up as it is; a name without
\* provider is looked up under provider.name when the context has a provider,
\* and unchanged when it has none
C22_NameResolution ==
    lastCall.op = "BuildTCP" =>
        /\ ResolvedName \in DOMAIN manager.configs <=> lastCall.err.kind /= "doesNotExist"
        /\ lastCall.err.kind = "doesNotExist" => lastCall.err.service = ResolvedName
        /\ lastCall.err = NoError => ResolvedName \in manager.built

\* "p.s" asked for from a context of provider q is found as p.s
C22_Witness ==
    /\ lastCall.op = "BuildTCP"
    /\ lastCall.serviceName = svc_ps
    /\ lastCall.ctxProvider = prov_q
    /\ lastCall.err = NoError
    /\ manager.built = {svc_ps}


\* ------------------------------------------------------------------
\* The load balancer that buildLoadBalancer sets up: weighted round
\* robin over the servers of configureLBServers, with sticky sessions
\* ------------------------------------------------------------------

\* the largest server weight here
MaxWeight == 3

\* how many selections one balancer makes here
MaxPicks == 8

\* the server URLs of a backend
BackendURLs == {"A", "B", "C"}

\* backend.Servers in the order the range loop of configureLBServers visits them
BackendServers ==
    UNION {[1..n -> [url : BackendURLs, weight : 0..MaxWeight]] : n \in 1..MaxServers}

\* where the server with this URL is in the list, 0 if it is not there
FindServerByURL(servers, url) ==
    IF \E i \in 1..Len(servers) : servers[i].url = url
    THEN CHOOSE i \in 1..Len(servers) : servers[i].url = url
    ELSE 0

\* lb.UpsertServer(u, roundrobin.Weight(srv.Weight)): a known URL gets the new
\* weight, an unknown one is appended
UpsertServer(servers, srv) ==
    LET i == FindServerByURL(servers, srv.url)
    IN  IF i = 0 THEN Append(servers, srv) ELSE [servers EXCEPT ![i].weight = srv.weight]

\* configureLBServers: every server of the backend is upserted
RECURSIVE configureLBServers(_, _)
configureLBServers(servers, backendServers) ==
    IF backendServers = <<>> THEN servers
    ELSE configureLBServers(UpsertServer(servers, Head(backendServers)), Tail(backendServers))

\* the greatest common divisor
RECURSIVE GCD(_, _)
GCD(a, b) == IF b = 0 THEN a ELSE GCD(b, a % b)

\* the greatest common divisor of the weights from server i on
RECURSIVE WeightGcd(_, _)
WeightGcd(servers, i) ==
    IF i = Len(servers) THEN servers[i].weight
    ELSE GCD(servers[i].weight, WeightGcd(servers, i + 1))

\* the largest weight
MaxOfWeights(servers) ==
    CHOOSE w \in {servers[i].weight : i \in 1..Len(servers)} :
        \A i \in 1..Len(servers) : servers[i].weight <= w

\* the sum of the weights from server i on
RECURSIVE SumOfWeights(_, _)
SumOfWeights(servers, i) ==
    IF i > Len(servers) THEN 0 ELSE servers[i].weight + SumOfWeights(servers, i + 1)

\* a round robin that takes every server in turn, whatever its weight
EligibleAlways(weight, currentWeight) == TRUE

\* the server at the cursor is taken when its weight reaches the current weight
Eligible(weight, currentWeight) == weight >= currentWeight

\* the cursor moves on until it is at a server to take; index counts from 0
RECURSIVE Advance(_, _, _)
Advance(servers, index, currentWeight) ==
    LET i == (index + 1) % Len(servers)
        cw == IF i /= 0 THEN currentWeight
              ELSE IF currentWeight - WeightGcd(servers, 1) <= 0 THEN MaxOfWeights(servers)
              ELSE currentWeight - WeightGcd(servers, 1)
    IN  IF Eligible(servers[i + 1].weight, cw)
        THEN [index |-> i, currentWeight |-> cw]
        ELSE Advance(servers, i, cw)

\* NextServer can pick: there is a server, and not every weight is 0
CanPick(servers) == servers /= <<>> /\ MaxOfWeights(servers) > 0

\* the cursor of a balancer whose servers have just changed
ResetState(b) == [b EXCEPT !.index = 0 - 1, !.currentWeight = 0, !.picks = <<>>]

\* everything but the load balancer
outsideBalancer ==
    <<storeVars, statusVars, proxyVars, chainVars, manager, publication, merging, listener,
      stats, forwardAuth,
      theServer, locking, lbs, whitelist, authRequest, histogram>>

\* buildLoadBalancer: a balancer, sticky or not, with the servers of the backend
InitBalancer ==
    /\ CoreIdle
    /\ RestIdleBut("balancer")
    /\ lastCall = NoCall
    /\ \E backendServers \in BackendServers, sticky \in BOOLEAN :
          balancer = [servers |-> configureLBServers(<<>>, backendServers),
                      sticky |-> sticky,
                      index |-> 0 - 1,
                      currentWeight |-> 0,
                      picks |-> <<>>,
                      removed |-> {}]

\* a cookie that names no server
NoCookie == "none"

\* a sticky balancer that follows any cookie, registered or not
StuckToAnyCookie(cookie) == balancer.sticky

\* the sticky balancer keeps to the cookie of the request
Stuck(cookie) == balancer.sticky /\ FindServerByURL(balancer.servers, cookie) /= 0

\* a request whose cookie names a registered server goes to that server
StickyServeStep ==
    \E cookie \in BackendURLs :
        /\ Stuck(cookie)
        /\ lastCall' = [op |-> "ServeHTTP", cookie |-> cookie, sentTo |-> cookie,
                        setCookie |-> NoCookie, servers |-> balancer.servers]
        /\ UNCHANGED <<balancer, outsideBalancer>>

\* any other request goes to the next server of the weighted round robin; a
\* sticky balancer answers it with a cookie that names this server
NextServerStep ==
    \E cookie \in BackendURLs \cup {NoCookie} :
        /\ ~Stuck(cookie)
        /\ CanPick(balancer.servers)
        /\ Len(balancer.picks) < MaxPicks
        /\ LET at == Advance(balancer.servers, balancer.index, balancer.currentWeight)
               url == balancer.servers[at.index + 1].url
           IN  /\ balancer' = [balancer EXCEPT !.index = at.index,
                                               !.currentWeight = at.currentWeight,
                                               !.picks = Append(@, url)]
               /\ lastCall' = [op |-> "ServeHTTP", cookie |-> cookie, sentTo |-> url,
                               setCookie |-> IF balancer.sticky THEN url ELSE NoCookie,
                               servers |-> balancer.servers]
        /\ UNCHANGED outsideBalancer

\* a server is taken out of the balancer
RemoveServerStep ==
    \E i \in 1..Len(balancer.servers) :
        /\ Len(balancer.servers) > 1
        /\ balancer' = ResetState([balancer EXCEPT
                           !.servers = SubSeq(@, 1, i - 1) \o SubSeq(@, i + 1, Len(@)),
                           !.removed = @ \cup {balancer.servers[i].url}])
        /\ lastCall' = [op |-> "RemoveServer", url |-> balancer.servers[i].url]
        /\ UNCHANGED outsideBalancer

NextBalancer ==
    \/ StickyServeStep
    \/ NextServerStep
    \/ RemoveServerStep

SpecBalancer == InitBalancer /\ [][NextBalancer]_vars

\* how often url is among the picks first..last
PickedIn(url, first, last) ==
    Cardinality({i \in first..last : balancer.picks[i] = url})

RegisteredThen == {lastCall.servers[i].url : i \in 1..Len(lastCall.servers)}

\* C24: a sticky balancer sends a request whose cookie names a registered
\* server to that server; a request whose cookie names a server that is not
\* registered goes to the next server of the weighted round robin and is
\* answered with a new cookie that names this registered server
C24_StickySessions ==
    (lastCall.op = "ServeHTTP" /\ balancer.sticky) =>
        IF lastCall.cookie \in RegisteredThen
        THEN lastCall.sentTo = lastCall.cookie /\ lastCall.setCookie = NoCookie
        ELSE /\ lastCall.sentTo \in RegisteredThen
             /\ lastCall.sentTo = balancer.picks[Len(balancer.picks)]
             /\ lastCall.setCookie = lastCall.sentTo

\* B has been taken out: a request with the cookie of B is sent to A, the
\* only registered server, and gets the cookie of A
C24_Witness ==
    /\ balancer.sticky
    /\ lastCall.op = "ServeHTTP"
    /\ lastCall.cookie = "B"
    /\ "B" \in balancer.removed
    /\ RegisteredThen = {"A"}
    /\ lastCall.sentTo = "A"
    /\ lastCall.setCookie = "A"
    /\ balancer.picks = <<"A">>


\* ------------------------------------------------------------------
\* Publication of the runtime configuration: one reload task that builds,
\* annotates and publishes a new RuntimeConfiguration, and readers such
\* as Handler.getRouters that walk the configuration they were given
\* ------------------------------------------------------------------

\* how many configurations the reload task builds after the first
MaxGenerations == 3

\* the API requests that read concurrently
Readers == {1, 2}

\* the entries of a RuntimeConfiguration that a reader walks
Entries == {"router", "service"}

\* a RuntimeConfiguration as NewRuntimeConfig leaves it: no entry annotated yet
FreshConfiguration == [e \in Entries |-> "raw"]

\* a reader that is not reading
IdleReader == [pc |-> "idle", conf |-> 0, seen |-> <<>>]

\* a reload task that publishes whatever it has built
ReadyToPublishAlways(configuration) == TRUE

\* PopulateUsedBy has written the annotations of every entry
ReadyToPublish(configuration) == \A e \in Entries : configuration[e] = "annotated"

\* everything but the publication
outsidePublication ==
    <<storeVars, statusVars, proxyVars, chainVars, manager, balancer, merging, listener,
      stats, forwardAuth,
      theServer, locking, lbs, whitelist, authRequest, histogram>>

\* the first configuration is published, complete
InitPublication ==
    /\ CoreIdle
    /\ RestIdleBut("publication")
    /\ lastCall = NoCall
    /\ publication = [objs |-> <<[e \in Entries |-> "annotated"]>>,
                      published |-> 1,
                      reloading |-> FALSE,
                      readers |-> [r \in Readers |-> IdleReader]]

\* the configuration that the reload task is working on
Candidate == publication.objs[Len(publication.objs)]

\* the reload task builds an entirely new RuntimeConfiguration
ReloadBuildStep ==
    /\ ~publication.reloading
    /\ Len(publication.objs) <= MaxGenerations
    /\ publication' = [publication EXCEPT !.objs = Append(@, FreshConfiguration),
                                          !.reloading = TRUE]
    /\ lastCall' = [op |-> "NewRuntimeConfig"]
    /\ UNCHANGED outsidePublication

\* PopulateUsedBy writes the annotations of one entry of the new configuration
ReloadAnnotateStep ==
    \E e \in Entries :
        /\ publication.reloading
        /\ Candidate[e] = "raw"
        /\ publication' = [publication EXCEPT !.objs[Len(publication.objs)][e] = "annotated"]
        /\ lastCall' = [op |-> "PopulateUsedBy", entry |-> e]
        /\ UNCHANGED outsidePublication

\* the reload task hands the new configuration to the readers that start from now on
ReloadPublishStep ==
    /\ publication.reloading
    /\ ReadyToPublish(Candidate)
    /\ publication' = [publication EXCEPT !.published = Len(publication.objs),
                                          !.reloading = FALSE]
    /\ lastCall' = [op |-> "publish"]
    /\ UNCHANGED outsidePublication

\* a request reaches the handler that holds the published configuration
ReaderStartStep ==
    \E r \in Readers :
        /\ publication.readers[r].pc = "idle"
        /\ publication' = [publication EXCEPT
                              !.readers[r] = [pc |-> "reading",
                                              conf |-> publication.published,
                                              seen |-> <<>>]]
        /\ lastCall' = [op |-> "getRouters", reader |-> r]
        /\ UNCHANGED outsidePublication

\* getRouters visits the next entry of its configuration
ReaderReadStep ==
    \E r \in Readers :
        LET rd == publication.readers[r]
        IN  /\ rd.pc = "reading"
            /\ Len(rd.seen) < Cardinality(Entries)
            /\ \E e \in Entries \ {rd.seen[i].entry : i \in 1..Len(rd.seen)} :
                  publication' = [publication EXCEPT
                      !.readers[r].seen =
                          Append(@, [entry |-> e, generation |-> rd.conf,
                                     annotation |-> publication.objs[rd.conf][e]])]
            /\ lastCall' = [op |-> "read", reader |-> r]
            /\ UNCHANGED outsidePublication

\* getRouters has visited every entry and answers
ReaderEndStep ==
    \E r \in Readers :
        /\ publication.readers[r].pc = "reading"
        /\ Len(publication.readers[r].seen) = Cardinality(Entries)
        /\ publication' = [publication EXCEPT !.readers[r].pc = "idle"]
        /\ lastCall' = [op |-> "answered", reader |-> r]
        /\ UNCHANGED outsidePublication

NextPublication ==
    \/ ReloadBuildStep
    \/ ReloadAnnotateStep
    \/ ReloadPublishStep
    \/ ReaderStartStep
    \/ ReaderReadStep
    \/ ReaderEndStep

SpecPublication == InitPublication /\ [][NextPublication]_vars

\* C25: whatever the interleaving of the reload task and the readers, every
\* entry a reader has seen during one request comes from one and the same
\* configuration, which was published, and carries its finished annotations
C25_AtomicPublication ==
    /\ ReadyToPublish(publication.objs[publication.published])
    /\ \A r \in Readers :
          LET rd == publication.readers[r]
          IN  \A i \in 1..Len(rd.seen) :
                 /\ rd.seen[i].generation = rd.seen[1].generation
                 /\ rd.seen[i].generation <= publication.published
                 /\ rd.seen[i].annotation = "annotated"

\* reader 1 is still walking the first configuration, of which it has seen
\* one entry, while the second is published and the third is half annotated
C25_Witness ==
    /\ publication.published = 2
    /\ Len(publication.objs) = 3
    /\ publication.reloading
    /\ \E e \in Entries : Candidate[e] = "annotated"
    /\ \E e \in Entries : Candidate[e] = "raw"
    /\ publication.readers[1].pc = "reading"
    /\ publication.readers[1].conf = 1
    /\ Len(publication.readers[1].seen) = 1
    /\ publication.readers[2].conf = 2
    /\ Len(publication.readers[2].seen) = 2


\* ------------------------------------------------------------------
\* Provider configuration: the rancher provider's buildConfiguration,
\* which writes one configuration per service name, and provider.Merge,
\* which folds them into the provider's configuration
\* ------------------------------------------------------------------

\* service names "a" and "b"
rancher_a == <<97>>
rancher_b == <<98>>
SourceNames == {rancher_a, rancher_b}

\* the names "R1", "M1" and "S1" that labels give to a router, a middleware and a service
Router1 == <<82, 49>>
Middleware1 == <<77, 49>>
Service1 == <<83, 49>>

\* the hosts "1" and "2" that a router rule of the labels can match
LabelHosts == {<<49>>, <<50>>}

\* two different definitions of a middleware
LabelAuths == {"users:x", "users:y"}

\* the settings of a load balancer besides its servers
LabelMethods == {"wrr", "drr"}

\* a label that is not set
NotSet == "not set"

\* what the rancher API reports of one service: its name, its address and its labels
RancherServices ==
    [Name : SourceNames,
     rule : LabelHosts \cup {<<>>},
     auth : LabelAuths \cup {NotSet},
     method : LabelMethods \cup {NotSet}]

\* the services of one provider, in the order the API lists them
TwoServices == {<<x, y>> : x, y \in RancherServices}

\* lb.SetDefaults()
DefaultMethod == "wrr"

\* the servers that addServers derives from the containers of the service
addServers(i) == <<[URL |-> <<"http", i>>]>>

\* buildServiceConfiguration: the services of the labels, or one default
\* service named after the rancher service, each with the servers of the service
buildServiceConfiguration(service, i) ==
    IF service.method = NotSet
    THEN PutKey(<<>>, service.Name, [method |-> DefaultMethod, servers |-> addServers(i)])
    ELSE PutKey(<<>>, Service1, [method |-> service.method, servers |-> addServers(i)])

\* BuildRouterConfiguration: the routers of the labels, or one default router
\* named after the rancher service; a router without service gets the only one
BuildRouterConfiguration(service, services) ==
    LET only == CHOOSE n \in DOMAIN services : TRUE
    IN  IF service.rule /= <<>>
        THEN PutKey(<<>>, Router1, [Rule |-> service.rule, Service |-> only])
        ELSE PutKey(<<>>, service.Name, [Rule |-> service.Name, Service |-> only])

\* label.DecodeConfiguration and the two builders: the configuration of one service
ConfFromLabel(service, i) ==
    LET services == buildServiceConfiguration(service, i)
    IN  [Routers |-> BuildRouterConfiguration(service, services),
         Middlewares |-> IF service.auth = NotSet THEN <<>>
                         ELSE PutKey(<<>>, Middleware1, service.auth),
         Services |-> services]

\* a merge that accepts every second definition of a name
SameAlways(existing, added) == TRUE

\* reflect.DeepEqual of two routers or of two middlewares
DeepEqual(existing, added) == existing = added

\* ServersLoadBalancer.Mergeable: equal but for the servers
Mergeable(l, loadBalancer) ==
    DeepEqual([l EXCEPT !.servers = <<>>], [loadBalancer EXCEPT !.servers = <<>>])

\* AddRouter / AddMiddleware for every entry of one configuration: a new name
\* is added, a known one must be defined identically
AddEntries(acc, entries) ==
    [kv |-> [n \in DOMAIN acc.kv \cup DOMAIN entries |->
                IF n \in DOMAIN acc.kv THEN acc.kv[n] ELSE entries[n]],
     toDelete |-> acc.toDelete \cup
                  {n \in DOMAIN acc.kv \cap DOMAIN entries : ~DeepEqual(acc.kv[n], entries[n])}]

\* AddService for every service of one configuration: a new name is added,
\* a known one takes the servers of a mergeable definition
AddServices(acc, entries) ==
    [kv |-> [n \in DOMAIN acc.kv \cup DOMAIN entries |->
                IF n \notin DOMAIN acc.kv THEN entries[n]
                ELSE IF n \in DOMAIN entries /\ Mergeable(acc.kv[n], entries[n])
                     THEN [acc.kv[n] EXCEPT !.servers = @ \o entries[n].servers]
                     ELSE acc.kv[n]],
     toDelete |-> acc.toDelete \cup
                  {n \in DOMAIN acc.kv \cap DOMAIN entries : ~Mergeable(acc.kv[n], entries[n])}]

\* nothing merged yet
NothingMerged == [kv |-> <<>>, toDelete |-> {}]

\* the loop of Merge over the sorted keys
RECURSIVE MergeFrom(_, _, _)
MergeFrom(configurations, sortedKeys, acc) ==
    IF sortedKeys = <<>> THEN acc
    ELSE LET root == configurations[Head(sortedKeys)]
         IN  MergeFrom(configurations, Tail(sortedKeys),
                       [Routers |-> AddEntries(acc.Routers, root.Routers),
                        Middlewares |-> AddEntries(acc.Middlewares, root.Middlewares),
                        Services |-> AddServices(acc.Services, root.Services)])

\* the names marked for deletion leave the merged map
Delete(acc) == [n \in DOMAIN acc.kv \ acc.toDelete |-> acc.kv[n]]

\* the keys of the map as a list, in some order
RECURSIVE KeyList(_)
KeyList(keys) ==
    IF keys = {} THEN <<>>
    ELSE LET k == CHOOSE x \in keys : TRUE IN <<k>> \o KeyList(keys \ {k})

\* provider.Merge
Merge(configurations) ==
    LET sortedKeys == SortStrings(KeyList(DOMAIN configurations))
        acc == MergeFrom(configurations, sortedKeys,
                         [Routers |-> NothingMerged, Middlewares |-> NothingMerged,
                          Services |-> NothingMerged])
    IN  [Routers |-> Delete(acc.Routers),
         Middlewares |-> Delete(acc.Middlewares),
         Services |-> Delete(acc.Services)]

\* no configuration returned yet
NotMerged == [Routers |-> <<>>, Middlewares |-> <<>>, Services |-> <<>>, done |-> FALSE]

\* everything but the provider configuration
outsideMerging ==
    <<storeVars, statusVars, proxyVars, chainVars, manager, balancer, publication, listener,
      stats, forwardAuth,
      theServer, locking, lbs, whitelist, authRequest, histogram>>

\* buildConfiguration is called with two services
InitMerging ==
    /\ CoreIdle
    /\ RestIdleBut("merging")
    /\ lastCall = NoCall
    /\ \E services \in TwoServices :
          merging = [services |-> services, next |-> 1, kept |-> {}, configurations |-> <<>>,
                     merged |-> NotMerged]

\* a loop that never replaces the configuration written under a name
WriteConfigurationOnce(configurations, name, confFromLabel) ==
    IF name \in DOMAIN configurations THEN configurations ELSE PutKey(configurations, name, confFromLabel)

\* configurations[service.Name] = confFromLabel
WriteConfiguration(configurations, name, confFromLabel) ==
    PutKey(configurations, name, confFromLabel)

\* one turn of the loop of buildConfiguration: a service that keepService
\* filters, or whose labels or port are unusable, is skipped; the
\* configuration of any other is written under the name of the service
BuildConfigurationStep ==
    \E keep \in BOOLEAN :
        LET i == merging.next
            service == merging.services[i]
        IN  /\ i <= Len(merging.services)
            /\ merging' = [merging EXCEPT
                  !.next = i + 1,
                  !.kept = IF keep THEN @ \cup {i} ELSE @,
                  !.configurations =
                      IF keep THEN WriteConfiguration(@, service.Name, ConfFromLabel(service, i))
                      ELSE @]
            /\ lastCall' = [op |-> "buildConfiguration", service |-> i, keep |-> keep]
            /\ UNCHANGED outsideMerging

\* buildConfiguration returns provider.Merge(ctx, configurations)
MergeStep ==
    /\ merging.next > Len(merging.services)
    /\ ~merging.merged.done
    /\ LET m == Merge(merging.configurations)
       IN  merging' = [merging EXCEPT
               !.merged = [Routers |-> m.Routers, Middlewares |-> m.Middlewares,
                           Services |-> m.Services, done |-> TRUE]]
    /\ lastCall' = [op |-> "Merge"]
    /\ UNCHANGED outsideMerging

NextMerging ==
    \/ BuildConfigurationStep
    \/ MergeStep

SpecMerging == InitMerging /\ [][NextMerging]_vars

\* the configuration that the labels of the i-th service stand for
Conf(i) == ConfFromLabel(merging.services[i], i)

\* buildConfiguration has returned, having kept both services
MergedBoth == merging.merged.done /\ merging.kept = {1, 2}

\* the kinds of entity of a configuration
Kinds == {"Routers", "Middlewares", "Services"}

\* the names that the configurations of both services define
DefinedTwice(kind) == DOMAIN Conf(1)[kind] \cap DOMAIN Conf(2)[kind]

\* C26 as stated: a name that two services of the provider define is in the
\* merged configuration with the definition written last (a service, with
\* the settings written last)
C26_LastWriteWins ==
    MergedBoth =>
        \A kind \in Kinds : \A n \in DefinedTwice(kind) :
            /\ n \in DOMAIN merging.merged[kind]
            /\ IF kind = "Services"
               THEN merging.merged[kind][n].method = Conf(2)[kind][n].method
               ELSE merging.merged[kind][n] = Conf(2)[kind][n]

\* C26: when two services of the provider carry the same service name, the
\* configuration written last under that name replaces the earlier one, and
\* the merged configuration holds exactly the definitions of the last
C26_LastWriteWinsPerServiceName ==
    (MergedBoth /\ merging.services[1].Name = merging.services[2].Name) =>
        \A kind \in Kinds : merging.merged[kind] = Conf(2)[kind]

\* two services named alike give router R1 different rules, and the merged
\* configuration has the rule of the second
C26_Witness ==
    /\ MergedBoth
    /\ merging.services[1].Name = merging.services[2].Name
    /\ Router1 \in DefinedTwice("Routers")
    /\ Conf(1).Routers[Router1].Rule /= Conf(2).Routers[Router1].Rule
    /\ Router1 \in DOMAIN merging.merged.Routers
    /\ merging.merged.Routers[Router1] = Conf(2).Routers[Router1]

\* the two definitions of a name are identical; those of a service, apart
\* from the servers
Identical(kind, n) ==
    IF kind = "Services" THEN Conf(1).Services[n].method = Conf(2).Services[n].method
    ELSE Conf(1)[kind][n] = Conf(2)[kind][n]

\* the merged definition of a name that both define identically: that
\* definition, for a service with the servers of both
KeptOnce(kind, n) ==
    LET merged == merging.merged[kind][n]
    IN  IF kind = "Services"
        THEN /\ merged.method = Conf(1).Services[n].method
             /\ Len(merged.servers) = 2
             /\ Range(merged.servers) =
                    Range(Conf(1).Services[n].servers) \cup Range(Conf(2).Services[n].servers)
        ELSE merged = Conf(1)[kind][n]

\* C27: of two differently named sources of one provider, a name that both
\* define is kept once if the definitions are identical (a service: identical
\* apart from the servers, and it has the servers of both) and is dropped if
\* they differ; a name that one of them defines is merged as defined
C27_MergeKeepsOrDrops ==
    (MergedBoth /\ merging.services[1].Name /= merging.services[2].Name) =>
        \A kind \in Kinds :
            /\ DOMAIN merging.merged[kind] \subseteq DOMAIN Conf(1)[kind] \cup DOMAIN Conf(2)[kind]
            /\ \A n \in DefinedTwice(kind) :
                  IF Identical(kind, n)
                  THEN n \in DOMAIN merging.merged[kind] /\ KeptOnce(kind, n)
                  ELSE n \notin DOMAIN merging.merged[kind]
            /\ \A i \in {1, 2} : \A n \in DOMAIN Conf(i)[kind] \ DefinedTwice(kind) :
                  /\ n \in DOMAIN merging.merged[kind]
                  /\ merging.merged[kind][n] = Conf(i)[kind][n]

\* two differently named sources define router R1 and service S1 alike and
\* middleware M1 differently: R1 is kept, S1 has two servers, M1 is gone
C27_Witness ==
    /\ MergedBoth
    /\ merging.services[1].Name /= merging.services[2].Name
    /\ Router1 \in DefinedTwice("Routers") /\ Router1 \in DOMAIN merging.merged.Routers
    /\ Service1 \in DOMAIN merging.merged.Services
    /\ Len(merging.merged.Services[Service1].servers) = 2
    /\ Middleware1 \in DefinedTwice("Middlewares")
    /\ Middleware1 \notin DOMAIN merging.merged.Middlewares


\* ------------------------------------------------------------------
\* UDP listener: sessions per remote address, and Shutdown with a grace
\* period
\* ------------------------------------------------------------------

\* the clock of the listener stops here
MaxListenerTime == 4

\* the remote addresses that send packets
Remotes == {"remote1", "remote2"}

\* the grace periods that Shutdown is called with
GraceTimeouts == {1, 2}

\* a listener that opens a session for every new remote address
MayOpenAlways(accepting) == TRUE

\* a new remote address gets a session while the listener accepts
MayOpen(accepting) == accepting

\* Shutdown has been called and has not returned
Draining == listener.shutdown = "draining"

\* Shutdown may return: no session is left, or the grace period is over
Drained == listener.conns = {} \/ listener.now >= listener.end

\* everything but the listener
outsideListener ==
    <<storeVars, statusVars, proxyVars, chainVars, manager, balancer, publication, merging,
      stats, forwardAuth,
      theServer, locking, lbs, whitelist, authRequest, histogram>>

\* Listen: an open listener without sessions
InitListener ==
    /\ CoreIdle
    /\ RestIdleBut("listener")
    /\ lastCall = NoCall
    /\ listener = [accepting |-> TRUE, closed |-> FALSE, conns |-> {}, now |-> 0,
                   shutdown |-> "no", end |-> 0, returnedAt |-> 0, left |-> {}]

\* what becomes of a packet from this remote address
Outcome(remote) ==
    IF listener.closed THEN "lost"
    ELSE IF remote \in listener.conns THEN "delivered"
    ELSE IF MayOpen(listener.accepting) THEN "opened"
    ELSE "dropped"

\* the read loop receives a packet: it goes to the session of its remote
\* address, or opens one, or is dropped
PacketStep ==
    \E remote \in Remotes :
        /\ listener' = [listener EXCEPT
              !.conns = IF Outcome(remote) = "opened" THEN @ \cup {remote} ELSE @]
        /\ lastCall' = [op |-> "packet", remote |-> remote, outcome |-> Outcome(remote),
                        session |-> remote \in listener.conns,
                        accepting |-> listener.accepting, closed |-> listener.closed]
        /\ UNCHANGED outsideListener

\* a session ends: its handler closes it, or it was idle for too long
SessionEndStep ==
    \E remote \in listener.conns :
        /\ listener' = [listener EXCEPT !.conns = @ \ {remote}]
        /\ lastCall' = [op |-> "Conn.Close", remote |-> remote]
        /\ UNCHANGED outsideListener

\* Shutdown(graceTimeout) is called: the listener stops accepting
ShutdownStep ==
    \E graceTimeout \in GraceTimeouts :
        /\ listener.shutdown = "no"
        /\ listener.now + graceTimeout <= MaxListenerTime
        /\ listener' = [listener EXCEPT !.accepting = FALSE,
                                        !.shutdown = "draining",
                                        !.end = listener.now + graceTimeout]
        /\ lastCall' = [op |-> "Shutdown", graceTimeout |-> graceTimeout]
        /\ UNCHANGED outsideListener

\* Shutdown closes the listener with the sessions that are left, and returns
ShutdownReturnStep ==
    /\ Draining
    /\ Drained
    /\ listener' = [listener EXCEPT !.shutdown = "returned",
                                    !.closed = TRUE,
                                    !.returnedAt = listener.now,
                                    !.left = listener.conns,
                                    !.conns = {}]
    /\ lastCall' = [op |-> "Shutdown returns"]
    /\ UNCHANGED outsideListener

\* time passes, unless Shutdown is about to return
ListenerTickStep ==
    /\ listener.now < MaxListenerTime
    /\ ~(Draining /\ Drained)
    /\ listener' = [listener EXCEPT !.now = @ + 1]
    /\ lastCall' = [op |-> "tick"]
    /\ UNCHANGED outsideListener

NextListener ==
    \/ PacketStep
    \/ SessionEndStep
    \/ ShutdownStep
    \/ ShutdownReturnStep
    \/ ListenerTickStep

SpecListener == InitListener /\ [][NextListener]_vars

\* the goroutine that called Shutdown gets to run, and time passes
ListenerFairness == WF_vars(ShutdownReturnStep) /\ WF_vars(ListenerTickStep)

SpecListenerFair == SpecListener /\ ListenerFairness

\* during Shutdown a packet of an existing session is delivered and a packet
\* from a new remote address is dropped without opening a session; Shutdown
\* does not outlast the grace period, and returns before its end only when
\* no session is left
ShutdownIsGraceful ==
    /\ (lastCall.op = "packet" /\ ~lastCall.accepting /\ ~lastCall.closed) =>
          IF lastCall.session
          THEN lastCall.outcome = "delivered" /\ lastCall.remote \in listener.conns
          ELSE lastCall.outcome = "dropped" /\ lastCall.remote \notin listener.conns
    /\ Draining => listener.now <= listener.end
    /\ listener.shutdown = "returned" =>
          /\ listener.returnedAt <= listener.end
          /\ listener.left = {} \/ listener.returnedAt = listener.end

\* C28: once Shutdown is called, existing sessions keep working until they
\* end or the grace period expires, no session is opened for a new remote
\* address (its packets are accepted and dropped), and Shutdown returns once
\* the sessions have ended, at the latest when the grace period is over
C28_GracefulShutdown ==
    /\ []ShutdownIsGraceful
    /\ (Draining ~> listener.shutdown = "returned")

\* Shutdown is pending with the session of remote1 alive, and a packet of
\* remote2, which has no session, has just been dropped
C28_Witness ==
    /\ Draining
    /\ listener.now > 0
    /\ listener.conns = {"remote1"}
    /\ lastCall.op = "packet"
    /\ lastCall.remote = "remote2"
    /\ lastCall.outcome = "dropped"


\* ------------------------------------------------------------------
\* StatsRecorder: the list of the most recent requests that ended in an
\* error status
\* ------------------------------------------------------------------

\* how many requests pass through the recorder
MaxRequests == 3

\* how many times a handler writes a header or a body
MaxWrites == 2

\* http.StatusOK
StatusOK == 200

\* the least status code that counts as an error
StatusBadRequest == 400

\* the status codes that handlers write
HandlerStatuses == {StatusOK, 500}

\* the values of numRecentErrors that the recorder is made with
NumRecentErrors == {1, 2}

\* no header sent yet
NoStatus == 0

\* responseRecorder.WriteHeader: r.statusCode = status
RecordedStatus(recorded, status) == status

\* http.ResponseWriter: the first header written is the status of the response
SentStatus(sent, status) == IF sent = NoStatus THEN status ELSE sent

\* s.recentErrors[:s.numRecentErrors], once the list is longer
Truncate(list, n) == IF Len(list) > n THEN SubSeq(list, 1, n) ELSE list

\* everything but the recorder
outsideStats ==
    <<storeVars, statusVars, proxyVars, chainVars, manager, balancer, publication, merging,
      listener, forwardAuth,
      theServer, locking, lbs, whitelist, authRequest, histogram>>

\* NewStatsRecorder(numRecentErrors, next)
InitStats ==
    /\ CoreIdle
    /\ RestIdleBut("stats")
    /\ lastCall = NoCall
    /\ \E n \in NumRecentErrors :
          stats = [numRecentErrors |-> n, recentErrors |-> <<>>, running |-> <<>>,
                   started |-> 0, completed |-> <<>>, data |-> <<>>]

\* ServeHTTP is entered: a recorder with status 200 wraps the response writer
StatsServeHTTPStep ==
    /\ stats.started < MaxRequests
    /\ stats' = [stats EXCEPT
          !.started = @ + 1,
          !.running = PutKey(@, stats.started + 1,
                             [statusCode |-> StatusOK, sent |-> NoStatus, writes |-> 0,
                              returned |-> FALSE])]
    /\ lastCall' = [op |-> "ServeHTTP", request |-> stats.started + 1]
    /\ UNCHANGED outsideStats

\* the handler calls WriteHeader on the recorder
HandlerWriteHeaderStep ==
    \E id \in DOMAIN stats.running : \E status \in HandlerStatuses :
        LET rq == stats.running[id]
        IN  /\ ~rq.returned
            /\ rq.writes < MaxWrites
            /\ stats' = [stats EXCEPT
                  !.running[id] =
                      [rq EXCEPT !.statusCode = RecordedStatus(@, status),
                                 !.sent = SentStatus(@, status),
                                 !.writes = @ + 1]]
            /\ lastCall' = [op |-> "WriteHeader", request |-> id, status |-> status]
            /\ UNCHANGED outsideStats

\* the handler calls Write, which the recorder leaves to the response
\* writer: a response without header starts with status 200
HandlerWriteStep ==
    \E id \in DOMAIN stats.running :
        LET rq == stats.running[id]
        IN  /\ ~rq.returned
            /\ rq.writes < MaxWrites
            /\ stats' = [stats EXCEPT
                  !.running[id] = [rq EXCEPT !.sent = SentStatus(@, StatusOK),
                                             !.writes = @ + 1]]
            /\ lastCall' = [op |-> "Write", request |-> id]
            /\ UNCHANGED outsideStats

\* the next handler returns
HandlerReturnStep ==
    \E id \in DOMAIN stats.running :
        /\ ~stats.running[id].returned
        /\ stats' = [stats EXCEPT !.running[id].returned = TRUE,
                                  !.running[id].sent = SentStatus(@, StatusOK)]
        /\ lastCall' = [op |-> "Next returns", request |-> id]
        /\ UNCHANGED outsideStats

\* the rest of ServeHTTP, under the mutex: a recorded status of 400 or more
\* goes to the front of the list, which is cut to numRecentErrors
StatsRecordStep ==
    \E id \in DOMAIN stats.running :
        LET rq == stats.running[id]
        IN  /\ rq.returned
            /\ stats' = [stats EXCEPT
                  !.running = DeleteKey(@, id),
                  !.completed = <<[request |-> id, status |-> rq.sent]>> \o @,
                  !.recentErrors =
                      IF rq.statusCode >= StatusBadRequest
                      THEN Truncate(<<[request |-> id, StatusCode |-> rq.statusCode]>> \o @,
                                    stats.numRecentErrors)
                      ELSE @]
            /\ lastCall' = [op |-> "ServeHTTP returns", request |-> id]
            /\ UNCHANGED outsideStats

\* Data returns a copy of the list
StatsDataStep ==
    /\ stats.data /= stats.recentErrors
    /\ stats' = [stats EXCEPT !.data = stats.recentErrors]
    /\ lastCall' = [op |-> "Data"]
    /\ UNCHANGED outsideStats

NextStats ==
    \/ StatsServeHTTPStep
    \/ HandlerWriteHeaderStep
    \/ HandlerWriteStep
    \/ HandlerReturnStep
    \/ StatsRecordStep
    \/ StatsDataStep

SpecStats == InitStats /\ [][NextStats]_vars

\* the requests of the list, newest first, whose response status was 400 or more
RECURSIVE ErrorsOf(_)
ErrorsOf(completed) ==
    IF completed = <<>> THEN <<>>
    ELSE IF Head(completed).status >= StatusBadRequest
         THEN <<Head(completed).request>> \o ErrorsOf(Tail(completed))
         ELSE ErrorsOf(Tail(completed))

\* C29: recentErrors has at most numRecentErrors entries, which are the most
\* recently completed requests whose response status was 400 or more, newest
\* first; a request whose response status was below 400 is not in it
C29_RecentErrors ==
    /\ Len(stats.recentErrors) <= stats.numRecentErrors
    /\ [i \in 1..Len(stats.recentErrors) |-> stats.recentErrors[i].request]
          = Truncate(ErrorsOf(stats.completed), stats.numRecentErrors)


\* ------------------------------------------------------------------
\* Forward authentication: forwardAuth.ServeHTTP asks the authentication
\* server and either answers the client itself or calls the next handler
\* ------------------------------------------------------------------

\* http.StatusMultipleChoices
StatusMultipleChoices == 300

\* http.StatusInternalServerError
StatusInternalServerError == 500

\* the status codes that the authentication server answers with
AuthStatuses == {101, StatusOK, 204, 299, StatusMultipleChoices, 302, 401, StatusInternalServerError}

\* the bodies that the authentication server answers with
AuthBodies == {"", "denied"}

\* the Location header of the answer: none, one that parses, one that does not
Locations == {"none", "parsed", "malformed"}

\* nothing written to the client
NoResponse == [by |-> "nobody", status |-> NoStatus, body |-> "", location |-> "none"]

\* a middleware that lets redirections through as well
AuthorizedBelow400(statusCode) == statusCode >= StatusOK /\ statusCode < StatusBadRequest

\* the authentication server allows the request: a status in [200, 300)
Authorized(statusCode) == ~(statusCode < StatusOK \/ statusCode >= StatusMultipleChoices)

\* everything but the forward authentication
outsideForwardAuth ==
    <<storeVars, statusVars, proxyVars, chainVars, manager, balancer, publication, merging,
      listener, stats,
      theServer, locking, lbs, whitelist, authRequest, histogram>>

\* no request is being served
InitForwardAuth ==
    /\ CoreIdle
    /\ RestIdleBut("forwardAuth")
    /\ lastCall = NoCall
    /\ forwardAuth = [pc |-> "idle", answered |-> FALSE, read |-> FALSE,
                      statusCode |-> NoStatus, body |-> "", location |-> "none",
                      client |-> NoResponse, next |-> 0]

\* the middleware answers the client with status 500 and returns
InternalServerError ==
    [NoResponse EXCEPT !.by = "forwardAuth", !.status = StatusInternalServerError]

\* ServeHTTP builds the request to the authentication server; an address
\* that is no URL ends the request with 500
NewRequestStep ==
    \E err \in BOOLEAN :
        /\ forwardAuth.pc = "idle"
        /\ forwardAuth' = [forwardAuth EXCEPT
              !.pc = IF err THEN "done" ELSE "Do",
              !.client = IF err THEN InternalServerError ELSE @]
        /\ lastCall' = [op |-> "NewRequest", err |-> err]
        /\ UNCHANGED outsideForwardAuth

\* fa.client.Do: the authentication server answers, or the call fails and
\* the request ends with 500
DoStep ==
    \E forwardErr \in BOOLEAN, statusCode \in AuthStatuses, body \in AuthBodies,
       location \in Locations :
        /\ forwardAuth.pc = "Do"
        /\ forwardAuth' =
              IF forwardErr
              THEN [forwardAuth EXCEPT !.pc = "done", !.client = InternalServerError]
              ELSE [forwardAuth EXCEPT !.pc = "ReadAll", !.answered = TRUE,
                                       !.statusCode = statusCode, !.body = body,
                                       !.location = location]
        /\ lastCall' = [op |-> "Do", err |-> forwardErr]
        /\ UNCHANGED outsideForwardAuth

\* ioutil.ReadAll of the body of the answer; a failure ends the request with 500
ReadAllStep ==
    \E readError \in BOOLEAN :
        /\ forwardAuth.pc = "ReadAll"
        /\ forwardAuth' = [forwardAuth EXCEPT
              !.pc = IF readError THEN "done" ELSE "decide",
              !.read = ~readError,
              !.client = IF readError THEN InternalServerError ELSE @]
        /\ lastCall' = [op |-> "ReadAll", err |-> readError]
        /\ UNCHANGED outsideForwardAuth

\* a status outside [200, 300): the client gets the status, the body and the
\* location of the answer, or 500 if the Location header cannot be parsed
RefuseRequestStep ==
    /\ forwardAuth.pc = "decide"
    /\ ~Authorized(forwardAuth.statusCode)
    /\ forwardAuth' = [forwardAuth EXCEPT
          !.pc = "done",
          !.client = IF forwardAuth.location = "malformed" THEN InternalServerError
                     ELSE [by |-> "forwardAuth", status |-> forwardAuth.statusCode,
                           body |-> forwardAuth.body, location |-> forwardAuth.location]]
    /\ lastCall' = [op |-> "refuse"]
    /\ UNCHANGED outsideForwardAuth

\* a status in [200, 300): the next handler serves the request
NextHandlerStep ==
    /\ forwardAuth.pc = "decide"
    /\ Authorized(forwardAuth.statusCode)
    /\ forwardAuth' = [forwardAuth EXCEPT
          !.pc = "done",
          !.next = @ + 1,
          !.client = [NoResponse EXCEPT !.by = "next"]]
    /\ lastCall' = [op |-> "next.ServeHTTP"]
    /\ UNCHANGED outsideForwardAuth

NextForwardAuth ==
    \/ NewRequestStep
    \/ DoStep
    \/ ReadAllStep
    \/ RefuseRequestStep
    \/ NextHandlerStep

SpecForwardAuth == InitForwardAuth /\ [][NextForwardAuth]_vars

\* ServeHTTP has returned
Served == forwardAuth.pc = "done"

\* the status in [200, 300), as the claim words it
InRange(statusCode) == statusCode >= StatusOK /\ statusCode < StatusMultipleChoices

\* the client has the answer of the authentication server
Relayed ==
    /\ forwardAuth.client.by = "forwardAuth"
    /\ forwardAuth.client.status = forwardAuth.statusCode
    /\ forwardAuth.client.body = forwardAuth.body

\* the client has status 500 from the middleware
Got500 ==
    /\ forwardAuth.client.by = "forwardAuth"
    /\ forwardAuth.client.status = StatusInternalServerError
    /\ forwardAuth.client.body = ""

\* the call to the authentication server has succeeded: it has answered and
\* the body of its answer was read
Called == forwardAuth.answered /\ forwardAuth.read

\* C30 as stated: next is invoked if and only if the authentication server
\* answered with a status in [200, 300); with any other status the client
\* gets the status and the body of the answer; when the call fails the
\* client gets 500; next is invoked in neither case
C30_NextIffAuthorized ==
    /\ forwardAuth.next <= 1
    /\ forwardAuth.next = 1 => Served
    /\ Served =>
          /\ forwardAuth.next = 1 <=> (Called /\ InRange(forwardAuth.statusCode))
          /\ (Called /\ ~InRange(forwardAuth.statusCode)) => Relayed
          /\ ~Called => Got500

\* C30: next is invoked if and only if the authentication server answered
\* with a status in [200, 300); with any other status the client gets the
\* status and the body of the answer, or 500 if the answer has a Location
\* header that cannot be parsed; when the call fails the client gets 500;
\* next is invoked in none of these cases
C30_RelayedUnlessBadLocation ==
    /\ forwardAuth.next <= 1
    /\ forwardAuth.next = 1 => Served
    /\ Served =>
          /\ forwardAuth.next = 1 <=> (Called /\ InRange(forwardAuth.statusCode))
          /\ (Called /\ ~InRange(forwardAuth.statusCode)) =>
                IF forwardAuth.location = "malformed" THEN Got500 ELSE Relayed
          /\ ~Called => Got500

\* the authentication server has answered 401 with a body, and the client
\* has both while next was not invoked
C30_Witness ==
    /\ Served
    /\ forwardAuth.read
    /\ forwardAuth.statusCode = 401
    /\ forwardAuth.body = "denied"
    /\ forwardAuth.location = "none"
    /\ Relayed
    /\ forwardAuth.next = 0


\* ------------------------------------------------------------------
\* The Server: Start with a context, Wait, and the goroutine that stops
\* and closes the server when the context is done
\* ------------------------------------------------------------------

\* how many requests the entry points serve
MaxServed == 2

\* the goroutines that call Wait
Waiters == {"waiter1", "waiter2"}

\* make(chan bool, 1)
StopChanCap == 1

\* a goroutine that signals before it stops the entry points
AfterStepSendFirst(step) ==
    CASE step = "ctxDone" -> "send"
      [] step = "send" -> "entryPointsStop"
      [] step = "entryPointsStop" -> "cleanup"
      [] step = "cleanup" -> "closeStopChan"
      [] OTHER -> "done"

\* what the goroutine of Start does after each of its steps: <-ctx.Done(),
\* then Stop (tcpEntryPoints.Stop, stopChan <- true), then the deferred Close
AfterStep(step) ==
    CASE step = "ctxDone" -> "entryPointsStop"
      [] step = "entryPointsStop" -> "send"
      [] step = "send" -> "cleanup"
      [] step = "cleanup" -> "closeStopChan"
      [] OTHER -> "done"

\* a Close that leaves stopChan open
CloseSkipped(ch) == ch

\* close(s.stopChan)
CloseChan(ch) == [ch EXCEPT !.closed = TRUE]

\* everything but the Server
outsideServer ==
    <<storeVars, statusVars, proxyVars, chainVars, manager, balancer, publication, merging,
      listener, stats, forwardAuth, locking, lbs, whitelist, authRequest, histogram>>

\* NewServer: nothing started, stopChan empty and open
InitServer ==
    /\ CoreIdle
    /\ RestIdleBut("theServer")
    /\ lastCall = NoCall
    /\ theServer = [ctx |-> "live", start |-> "no", routine |-> "none",
                    entryPoints |-> "new", stopReturned |-> FALSE, served |-> 0,
                    stopChan |-> [buf |-> <<>>, closed |-> FALSE],
                    waiters |-> [w \in Waiters |-> "idle"]]

\* Start spawns the goroutine that waits for the context
StartStep ==
    /\ theServer.start = "no"
    /\ theServer' = [theServer EXCEPT !.start = "spawned", !.routine = "ctxDone"]
    /\ lastCall' = [op |-> "Start"]
    /\ UNCHANGED outsideServer

\* Start goes on: s.tcpEntryPoints.Start(), the watcher and the signal listener
EntryPointsStartStep ==
    /\ theServer.start = "spawned"
    /\ theServer' = [theServer EXCEPT !.start = "returned", !.entryPoints = "running"]
    /\ lastCall' = [op |-> "tcpEntryPoints.Start"]
    /\ UNCHANGED outsideServer

\* the entry points serve a request
ServeRequestStep ==
    /\ theServer.entryPoints = "running"
    /\ theServer.served < MaxServed
    /\ theServer' = [theServer EXCEPT !.served = @ + 1]
    /\ lastCall' = [op |-> "request"]
    /\ UNCHANGED outsideServer

\* the context given to Start is cancelled
CancelStep ==
    /\ theServer.ctx = "live"
    /\ theServer' = [theServer EXCEPT !.ctx = "cancelled"]
    /\ lastCall' = [op |-> "cancel"]
    /\ UNCHANGED outsideServer

\* <-ctx.Done() returns
CtxDoneStep ==
    /\ theServer.routine = "ctxDone"
    /\ theServer.ctx = "cancelled"
    /\ theServer' = [theServer EXCEPT !.routine = AfterStep("ctxDone")]
    /\ lastCall' = [op |-> "<-ctx.Done()"]
    /\ UNCHANGED outsideServer

\* Stop: s.tcpEntryPoints.Stop() returns
EntryPointsStopStep ==
    /\ theServer.routine = "entryPointsStop"
    /\ theServer' = [theServer EXCEPT !.routine = AfterStep("entryPointsStop"),
                                      !.entryPoints = "stopped",
                                      !.stopReturned = TRUE]
    /\ lastCall' = [op |-> "tcpEntryPoints.Stop"]
    /\ UNCHANGED outsideServer

\* Stop: s.stopChan <- true, which needs room in the buffer
SendStopStep ==
    /\ theServer.routine = "send"
    /\ ~theServer.stopChan.closed
    /\ Len(theServer.stopChan.buf) < StopChanCap
    /\ theServer' = [theServer EXCEPT !.routine = AfterStep("send"),
                                      !.stopChan.buf = Append(@, TRUE)]
    /\ lastCall' = [op |-> "stopChan <- true"]
    /\ UNCHANGED outsideServer

\* Close up to close(s.signals): the metrics clients and the routines pool
CleanupStep ==
    /\ theServer.routine = "cleanup"
    /\ theServer' = [theServer EXCEPT !.routine = AfterStep("cleanup")]
    /\ lastCall' = [op |-> "routinesPool.Cleanup"]
    /\ UNCHANGED outsideServer

\* Close from close(s.stopChan) on
CloseStopChanStep ==
    /\ theServer.routine = "closeStopChan"
    /\ theServer' = [theServer EXCEPT !.routine = AfterStep("closeStopChan"),
                                      !.stopChan = CloseChan(@)]
    /\ lastCall' = [op |-> "close(stopChan)"]
    /\ UNCHANGED outsideServer

\* a goroutine calls Wait and blocks in <-s.stopChan
WaitStep ==
    \E w \in Waiters :
        /\ theServer.waiters[w] /= "blocked"
        /\ theServer' = [theServer EXCEPT !.waiters[w] = "blocked"]
        /\ lastCall' = [op |-> "Wait", waiter |-> w]
        /\ UNCHANGED outsideServer

\* <-s.stopChan returns: with the value sent, or because the channel is closed
WaitReturnStep ==
    \E w \in Waiters :
        /\ theServer.waiters[w] = "blocked"
        /\ theServer.stopChan.buf /= <<>> \/ theServer.stopChan.closed
        /\ theServer' = [theServer EXCEPT
              !.waiters[w] = "released",
              !.stopChan.buf = IF @ = <<>> THEN @ ELSE Tail(@)]
        /\ lastCall' = [op |-> "Wait returns", waiter |-> w,
                        stopReturned |-> theServer.stopReturned]
        /\ UNCHANGED outsideServer

NextServer ==
    \/ StartStep
    \/ EntryPointsStartStep
    \/ ServeRequestStep
    \/ CancelStep
    \/ CtxDoneStep
    \/ EntryPointsStopStep
    \/ SendStopStep
    \/ CleanupStep
    \/ CloseStopChanStep
    \/ WaitStep
    \/ WaitReturnStep

SpecServer == InitServer /\ [][NextServer]_vars

\* the goroutine of Start and the waiters get to run, and the calls that the
\* goroutine makes return
ServerFairness ==
    /\ WF_vars(CtxDoneStep)
    /\ WF_vars(EntryPointsStopStep)
    /\ WF_vars(SendStopStep)
    /\ WF_vars(CleanupStep)
    /\ WF_vars(CloseStopChanStep)
    /\ \A w \in Waiters :
          WF_vars(WaitReturnStep /\ theServer'.waiters[w] = "released"
                                 /\ theServer.waiters[w] = "blocked")

SpecServerFair == SpecServer /\ ServerFairness

\* C31: when the shutdown comes from the cancelled context, a caller of Wait
\* is released only after tcpEntryPoints.Stop has returned: the value is on
\* stopChan, stopChan is closed and Wait returns only after that
C31_WaitReleasedAfterStop ==
    /\ theServer.stopChan.buf /= <<>> => theServer.stopReturned
    /\ theServer.stopChan.closed => theServer.stopReturned
    /\ lastCall.op = "Wait returns" => lastCall.stopReturned
    /\ \A w \in Waiters : theServer.waiters[w] = "released" => theServer.stopReturned

\* a waiter that blocked before the context was cancelled has been released
\* by the value on stopChan, before stopChan is closed
C31_Witness ==
    /\ theServer.waiters["waiter1"] = "released"
    /\ theServer.waiters["waiter2"] = "blocked"
    /\ ~theServer.stopChan.closed
    /\ theServer.entryPoints = "stopped"
    /\ theServer.served > 0

\* C35: once the server is started and its context is cancelled, every
\* goroutine blocked in Wait is eventually released, however many wait
C35_WaitersReleased ==
    \A w \in Waiters :
        (theServer.start /= "no" /\ theServer.ctx = "cancelled"
            /\ theServer.waiters[w] = "blocked")
        ~> (theServer.waiters[w] = "released")

\* both waiters are released, one of them by the closing of stopChan
C35_Witness ==
    /\ \A w \in Waiters : theServer.waiters[w] = "released"
    /\ theServer.stopChan.closed
    /\ theServer.stopChan.buf = <<>>
    /\ theServer.routine = "done"


\* ------------------------------------------------------------------
\* ServersLoadBalancer.Mergeable, statement by statement, on load balancer
\* objects that the two arguments point to
\* ------------------------------------------------------------------

\* the addresses of the load balancer objects
LBAddresses == {1, 2}

\* a nil slice
NilSlice == [isNil |-> TRUE, items |-> <<>>]

\* the values of a Servers field: nil, empty, one server, two servers
ServerSlices ==
    {NilSlice} \cup {[isNil |-> FALSE, items |-> list] : list \in {<<>>, <<"s1">>, <<"s1", "s2">>}}

\* the load balancer objects: the Servers and the rest of the configuration
LoadBalancers == [Servers : ServerSlices, PassHostHeader : BOOLEAN, Sticky : {"nil", "cookie"}]

\* deferred calls that run in the order in which they were deferred
DeferredFirstInFirstOut(deferred) == Head(deferred)

\* the deferred call that runs next: the one deferred last
NextDeferred(deferred) == deferred[Len(deferred)]

\* everything but the load balancer objects
outsideLbs ==
    <<storeVars, statusVars, proxyVars, chainVars, manager, balancer, publication, merging,
      listener, stats, forwardAuth, theServer, locking, whitelist, authRequest, histogram>>

\* l.Mergeable(loadBalancer) is called; l and loadBalancer may be one object
InitLbs ==
    /\ CoreIdle
    /\ RestIdleBut("lbs")
    /\ lastCall = NoCall
    /\ \E heap \in [LBAddresses -> LoadBalancers], l \in LBAddresses, loadBalancer \in LBAddresses :
          lbs = [heap |-> heap, before |-> heap, l |-> l, loadBalancer |-> loadBalancer,
                 pc |-> "saveL", deferred |-> <<>>, result |-> "none"]

\* savedServers := l.Servers; defer ...; l.Servers = nil
SaveLStep ==
    /\ lbs.pc = "saveL"
    /\ lbs' = [lbs EXCEPT
          !.deferred = Append(@, [to |-> lbs.l, saved |-> lbs.heap[lbs.l].Servers]),
          !.heap[lbs.l].Servers = NilSlice,
          !.pc = "saveLB"]
    /\ lastCall' = [op |-> "l.Servers = nil"]
    /\ UNCHANGED outsideLbs

\* savedServersLB := loadBalancer.Servers; defer ...; loadBalancer.Servers = nil
SaveLBStep ==
    /\ lbs.pc = "saveLB"
    /\ lbs' = [lbs EXCEPT
          !.deferred = Append(@, [to |-> lbs.loadBalancer,
                                  saved |-> lbs.heap[lbs.loadBalancer].Servers]),
          !.heap[lbs.loadBalancer].Servers = NilSlice,
          !.pc = "compare"]
    /\ lastCall' = [op |-> "loadBalancer.Servers = nil"]
    /\ UNCHANGED outsideLbs

\* return reflect.DeepEqual(l, loadBalancer): the result is set, the deferred calls follow
CompareStep ==
    /\ lbs.pc = "compare"
    /\ lbs' = [lbs EXCEPT
          !.result = DeepEqual(lbs.heap[lbs.l], lbs.heap[lbs.loadBalancer]),
          !.pc = "deferred"]
    /\ lastCall' = [op |-> "DeepEqual"]
    /\ UNCHANGED outsideLbs

\* one deferred call puts the saved Servers back
RunDeferredStep ==
    /\ lbs.pc = "deferred"
    /\ lbs.deferred /= <<>>
    /\ LET d == NextDeferred(lbs.deferred)
       IN  lbs' = [lbs EXCEPT
               !.heap[d.to].Servers = d.saved,
               !.deferred = SelectSeq(@, LAMBDA x : x /= d)]
    /\ lastCall' = [op |-> "deferred"]
    /\ UNCHANGED outsideLbs

\* Mergeable returns
MergeableReturnStep ==
    /\ lbs.pc = "deferred"
    /\ lbs.deferred = <<>>
    /\ lbs' = [lbs EXCEPT !.pc = "returned"]
    /\ lastCall' = [op |-> "Mergeable returns", result |-> lbs.result]
    /\ UNCHANGED outsideLbs

NextLbs ==
    \/ SaveLStep
    \/ SaveLBStep
    \/ CompareStep
    \/ RunDeferredStep
    \/ MergeableReturnStep

SpecLbs == InitLbs /\ [][NextLbs]_vars

\* the configuration of a load balancer without its servers
OtherFields(lb) == [PassHostHeader |-> lb.PassHostHeader, Sticky |-> lb.Sticky]

\* C34: when Mergeable has returned, the Servers of both load balancers are
\* what they were before the call, also when both arguments are one object,
\* and the result is true exactly when the two are equal in every field but
\* Servers
C34_MergeableFrame ==
    lbs.pc = "returned" =>
        /\ lbs.heap = lbs.before
        /\ lbs.result = (OtherFields(lbs.before[lbs.l])
                            = OtherFields(lbs.before[lbs.loadBalancer]))

\* Mergeable has returned true for one object with two servers passed twice
C34_Witness ==
    /\ lbs.pc = "returned"
    /\ lbs.l = lbs.loadBalancer
    /\ lbs.result = TRUE
    /\ Len(lbs.heap[lbs.l].Servers.items) = 2


----------------------------------------------------------------------------
(* Repeated router names in the UsedBy lists *)

NoRepeat(list) == \A i, j \in DOMAIN list : i /= j => list[i] /= list[j]

\* C36 as stated: after one PopulateUsedBy pass over a freshly built
\* configuration, no UsedBy list of a service, of a middleware or of a TCP
\* service holds the same router name more than once.
C36_NoRepeatedUsedBy == PopulatedOnce => \A list \in AllUsedBy : NoRepeat(list)

\* C36: after one PopulateUsedBy pass over a freshly built configuration, no
\* UsedBy list of a service or of a TCP service holds the same router name
\* more than once, and the UsedBy list of a middleware holds the name of a
\* router n@p once for every entry of that router's Middlewares list which,
\* qualified with p if it has no '@', names the middleware.
C36_UsedByOncePerReference ==
    PopulatedOnce =>
        /\ \A k \in Keys(runtimeConfig.Services) : NoRepeat(runtimeConfig.Services.kv[k].UsedBy)
        /\ \A k \in Keys(runtimeConfig.TCPServices) :
               NoRepeat(runtimeConfig.TCPServices.kv[k].UsedBy)
        /\ \A rn \in Keys(runtimeConfig.Routers), p \in Providers :
               IsNameAtProvider(rn, p) =>
                   LET midNames == runtimeConfig.Routers.kv[rn].Router.Middlewares
                   IN  \A e \in Keys(runtimeConfig.Middlewares) :
                           Occurrences(runtimeConfig.Middlewares.kv[e].UsedBy, rn) =
                               Cardinality({i \in DOMAIN midNames : Referred(midNames[i], p) = e})

\* router b@p lists m@p and m, which are one middleware: m@p is used by b@p
\* twice, while the services have each router once
C36_Witness ==
    /\ PopulatedOnce
    /\ b_p \in Keys(runtimeConfig.Routers)
    /\ runtimeConfig.Routers.kv[b_p].Router.Middlewares = <<m_p, m_>>
    /\ m_p \in Keys(runtimeConfig.Middlewares)
    /\ runtimeConfig.Middlewares.kv[m_p].UsedBy = <<b_p, b_p>>
    /\ s_p \in Keys(runtimeConfig.Services)
    /\ runtimeConfig.Services.kv[s_p].UsedBy = <<b_p>>
    /\ v_p \in Keys(runtimeConfig.TCPServices)
    /\ runtimeConfig.TCPServices.kv[v_p].UsedBy = <<t_p, u_p>>


----------------------------------------------------------------------------
(* UpdateServerStatus and GetAllStatus called from several tasks at once *)

\* calls of UpdateServerStatus and GetAllStatus made in one run
MaxStatusCalls == 3

StatusTasks == {"task1", "task2", "task3"}

NilStatusMap == [isNil |-> TRUE, kv |-> <<>>]

StatusMapOf(kv) == [isNil |-> FALSE, kv |-> kv]

\* what GetAllStatus returns when it sees the stored map whole: nil for a nil
\* or empty map, a copy otherwise
StatusView(stored) ==
    IF stored.isNil \/ DOMAIN stored.kv = {} THEN NilStatusMap ELSE StatusMapOf(stored.kv)

IdleTask ==
    [pc |-> "idle", server |-> "", status |-> "", allStatus |-> NilStatusMap, todo |-> {},
     from |-> 0, after |-> <<>>]

\* a plausible slip: the writer does not wait for the readers
CanLockAmongReaders(mu) == ~mu.writer

\* serverStatusMu.Lock() goes through: no writer and no reader holds the mutex
CanLock(mu) == ~mu.writer /\ mu.readers = {}

\* serverStatusMu.RLock() goes through: no writer holds the mutex
CanRLock(mu) == ~mu.writer

outsideLocking ==
    <<storeVars, statusVars, proxyVars, chainVars, manager, balancer, publication, merging,
      listener, stats, forwardAuth, theServer, lbs, whitelist, authRequest, histogram>>

\* a ServiceInfo whose server status is still nil, or holds two servers
\* already; history is the stored map after each assignment, puts the
\* assignments, returnedPut the last assignment to each server whose
\* UpdateServerStatus has returned, done the GetAllStatus calls that returned
InitLocking ==
    /\ CoreIdle
    /\ RestIdleBut("locking")
    /\ lastCall = NoCall
    /\ \E stored \in {NilStatusMap, StatusMapOf([u \in ServerURLs |-> "UP"])} :
          locking = [serverStatus |-> stored,
                     mu |-> [writer |-> FALSE, readers |-> {}],
                     task |-> [t \in StatusTasks |-> IdleTask],
                     history |-> <<stored>>,
                     puts |-> <<>>,
                     returnedPut |-> [u \in ServerURLs |-> 0],
                     done |-> {},
                     calls |-> 0]

\* task t calls s.UpdateServerStatus(server, status)
CallUpdateStep(t) ==
    /\ locking.task[t].pc = "idle"
    /\ locking.calls < MaxStatusCalls
    /\ \E u \in ServerURLs, st \in ServerStatuses :
          locking' = [locking EXCEPT
              !.task[t] = [IdleTask EXCEPT !.pc = "Lock", !.server = u, !.status = st],
              !.calls = @ + 1]
    /\ UNCHANGED <<lastCall, outsideLocking>>

\* s.serverStatusMu.Lock()
LockStep(t) ==
    /\ locking.task[t].pc = "Lock"
    /\ CanLock(locking.mu)
    /\ locking' = [locking EXCEPT !.mu.writer = TRUE, !.task[t].pc = "make"]
    /\ UNCHANGED <<lastCall, outsideLocking>>

\* if s.serverStatus == nil { s.serverStatus = make(map[string]string) }
MakeStep(t) ==
    /\ locking.task[t].pc = "make"
    /\ locking' = [locking EXCEPT
          !.serverStatus = IF @.isNil THEN StatusMapOf(<<>>) ELSE @,
          !.task[t].pc = "put"]
    /\ UNCHANGED <<lastCall, outsideLocking>>

\* s.serverStatus[server] = status
PutStatusStep(t) ==
    /\ locking.task[t].pc = "put"
    /\ LET me == locking.task[t]
           stored == StatusMapOf((me.server :> me.status) @@ locking.serverStatus.kv)
       IN  locking' = [locking EXCEPT
               !.serverStatus = stored,
               !.history = Append(@, stored),
               !.puts = Append(@, [server |-> me.server, status |-> me.status]),
               !.task[t].from = Len(locking.puts) + 1,
               !.task[t].pc = "Unlock"]
    /\ UNCHANGED <<lastCall, outsideLocking>>

\* the deferred s.serverStatusMu.Unlock(), and the return
UnlockStep(t) ==
    /\ locking.task[t].pc = "Unlock"
    /\ locking' = [locking EXCEPT
          !.mu.writer = FALSE,
          !.returnedPut[locking.task[t].server] = locking.task[t].from,
          !.task[t] = IdleTask]
    /\ UNCHANGED <<lastCall, outsideLocking>>

\* task t calls s.GetAllStatus()
CallGetAllStep(t) ==
    /\ locking.task[t].pc = "idle"
    /\ locking.calls < MaxStatusCalls
    /\ locking' = [locking EXCEPT
          !.task[t] = [IdleTask EXCEPT !.pc = "RLock", !.from = Len(locking.history),
                                       !.after = locking.returnedPut],
          !.calls = @ + 1]
    /\ UNCHANGED <<lastCall, outsideLocking>>

\* s.serverStatusMu.RLock()
RLockStep(t) ==
    /\ locking.task[t].pc = "RLock"
    /\ CanRLock(locking.mu)
    /\ locking' = [locking EXCEPT !.mu.readers = @ \cup {t}, !.task[t].pc = "len"]
    /\ UNCHANGED <<lastCall, outsideLocking>>

\* if len(s.serverStatus) == 0 { return nil }; allStatus := make(...)
LenStep(t) ==
    /\ locking.task[t].pc = "len"
    /\ LET keys == IF locking.serverStatus.isNil THEN {} ELSE DOMAIN locking.serverStatus.kv
       IN  locking' = [locking EXCEPT
               !.task[t].allStatus = IF keys = {} THEN NilStatusMap ELSE StatusMapOf(<<>>),
               !.task[t].todo = keys,
               !.task[t].pc = IF keys = {} THEN "RUnlock" ELSE "copy"]
    /\ UNCHANGED <<lastCall, outsideLocking>>

\* one iteration of the range loop: allStatus[k] = v, the keys in any order
CopyStatusStep(t) ==
    /\ locking.task[t].pc = "copy"
    /\ \E k \in locking.task[t].todo :
          locking' = [locking EXCEPT
              !.task[t].allStatus.kv = (k :> locking.serverStatus.kv[k]) @@ @,
              !.task[t].todo = @ \ {k},
              !.task[t].pc = IF locking.task[t].todo = {k} THEN "RUnlock" ELSE "copy"]
    /\ UNCHANGED <<lastCall, outsideLocking>>

\* the deferred s.serverStatusMu.RUnlock(), and the return of the map
RUnlockStep(t) ==
    /\ locking.task[t].pc = "RUnlock"
    /\ LET me == locking.task[t]
       IN  locking' = [locking EXCEPT
               !.mu.readers = @ \ {t},
               !.done = @ \cup {[result |-> me.allStatus, from |-> me.from,
                                 to |-> Len(locking.history), after |-> me.after]},
               !.task[t] = IdleTask]
    /\ UNCHANGED <<lastCall, outsideLocking>>

NextLocking ==
    \E t \in StatusTasks :
        \/ CallUpdateStep(t)
        \/ LockStep(t)
        \/ MakeStep(t)
        \/ PutStatusStep(t)
        \/ UnlockStep(t)
        \/ CallGetAllStep(t)
        \/ RLockStep(t)
        \/ LenStep(t)
        \/ CopyStatusStep(t)
        \/ RUnlockStep(t)

SpecLocking == InitLocking /\ [][NextLocking]_vars

\* the map is the stored map as it was after some assignment between the
\* call and the return
SeenAtOneInstant(call) ==
    \E i \in call.from..call.to : call.result = StatusView(locking.history[i])

\* for every server whose update had returned when GetAllStatus was called,
\* the map has the status of that update, or a later assignment to the same
\* server was made before GetAllStatus returned
SeesReturnedUpdates(call) ==
    \A u \in ServerURLs :
        call.after[u] > 0 =>
            \/ /\ ~call.result.isNil
               /\ u \in DOMAIN call.result.kv
               /\ call.result.kv[u] = locking.puts[call.after[u]].status
            \/ \E j \in (call.after[u] + 1)..(call.to - 1) : locking.puts[j].server = u

\* C32: with UpdateServerStatus and GetAllStatus called from several tasks at
\* once, every map GetAllStatus returned equals the stored status map as it
\* was at one instant between the call and the return, and it maps every
\* server whose UpdateServerStatus(a, s) had returned before the call to s
\* unless a was assigned again later.
C32_StatusMapAtomic ==
    \A call \in locking.done : SeenAtOneInstant(call) /\ SeesReturnedUpdates(call)

\* one GetAllStatus returned the two servers as they were before any update;
\* another, called after an UpdateServerStatus had returned, has the status
\* that update set
C32_Witness ==
    /\ locking /= <<>>
    /\ Len(locking.puts) = 1
    /\ \E early, late \in locking.done :
          /\ early.from = 1 /\ early.to = 1
          /\ early.result = StatusView(locking.history[1])
          /\ ~early.result.isNil
          /\ late.from = 2
          /\ late.after[locking.puts[1].server] = 1
          /\ late.result = StatusView(locking.history[2])
          /\ late.result /= early.result


----------------------------------------------------------------------------
(* The IP white list *)

\* net.IP: four octets, <<>> for nil
NilIP == <<>>

\* the addresses, hosts and CIDR strings of the runs, with what the package
\* net makes of them
ParseIP(s) ==
    CASE s = "10.0.0.1" -> <<10, 0, 0, 1>>
      [] s = "10.0.0.9" -> <<10, 0, 0, 9>>
      [] s = "192.168.1.7" -> <<192, 168, 1, 7>>
      [] OTHER -> NilIP

\* net.SplitHostPort(s): the host, or an error for an address without port
SplitHostPort(s) ==
    CASE s = "10.0.0.1:4000" -> [host |-> "10.0.0.1", err |-> ""]
      [] s = "10.0.0.9:4000" -> [host |-> "10.0.0.9", err |-> ""]
      [] s = "192.168.1.7:4000" -> [host |-> "192.168.1.7", err |-> ""]
      [] s = "junk:80" -> [host |-> "junk", err |-> ""]
      [] OTHER -> [host |-> "", err |-> "missing port in address"]

\* net.ParseCIDR(s): the network, or an error
ParseCIDR(s) ==
    CASE s = "10.0.0.0/29" -> [ip |-> <<10, 0, 0, 0>>, bits |-> 29, err |-> ""]
      [] s = "192.168.1.0/24" -> [ip |-> <<192, 168, 1, 0>>, bits |-> 24, err |-> ""]
      [] OTHER -> [ip |-> NilIP, bits |-> 0, err |-> "invalid CIDR address"]

Pow2(n) == IF n <= 0 THEN 1 ELSE IF n = 1 THEN 2 ELSE IF n = 2 THEN 4 ELSE IF n = 3 THEN 8
           ELSE IF n = 4 THEN 16 ELSE IF n = 5 THEN 32 ELSE IF n = 6 THEN 64
           ELSE IF n = 7 THEN 128 ELSE 256

\* how many of the prefix bits fall into octet i
MaskBits(bits, i) ==
    LET left == bits - 8 * (i - 1)
    IN  IF left <= 0 THEN 0 ELSE IF left >= 8 THEN 8 ELSE left

\* (*net.IPNet).Contains(addr)
NetContains(ipNet, addr) ==
    /\ addr /= NilIP
    /\ \A i \in 1..4 :
          addr[i] \div Pow2(8 - MaskBits(ipNet.bits, i)) =
              ipNet.ip[i] \div Pow2(8 - MaskBits(ipNet.bits, i))

WhiteListEntries == {"10.0.0.1", "10.0.0.0/29", "192.168.1.0/24", "bad/33"}

WhiteLists ==
    {<<>>} \cup {<<e>> : e \in WhiteListEntries}
           \cup {<<e, f>> : e \in WhiteListEntries, f \in WhiteListEntries}

RemoteAddrs == {"10.0.0.1:4000", "10.0.0.9:4000", "192.168.1.7:4000", "10.0.0.1", "junk:80"}

XForwardedForValues == {"10.0.0.1", "192.168.1.7", "10.0.0.1:4000", "junk"}

\* req.Header["X-Forwarded-For"]: no value, one or two
XForwardedForHeaders ==
    {<<>>} \cup {<<x>> : x \in XForwardedForValues}
           \cup {<<x, y>> : x \in XForwardedForValues, y \in XForwardedForValues}

WhiteListRequests ==
    {[RemoteAddr |-> ra, XForwardedFor |-> xff] :
        ra \in RemoteAddrs, xff \in XForwardedForHeaders}

NilWhiteList == [isNil |-> TRUE]

\* the loop of NewIP over whiteList: the IPs and the networks collected so
\* far, or the error of the first entry that is neither
RECURSIVE ParseWhiteList(_, _)
ParseWhiteList(whiteList, ip) ==
    IF whiteList = <<>> THEN [ip |-> ip, err |-> ""]
    ELSE LET ipMask == Head(whiteList)
         IN  IF ParseIP(ipMask) /= NilIP
             THEN ParseWhiteList(Tail(whiteList),
                      [ip EXCEPT !.whiteListsIPs = Append(@, ParseIP(ipMask))])
             ELSE IF ParseCIDR(ipMask).err /= ""
             THEN [ip |-> NilWhiteList, err |-> "parsing CIDR white list"]
             ELSE ParseWhiteList(Tail(whiteList),
                      [ip EXCEPT !.whiteListsNet =
                           Append(@, [ip |-> ParseCIDR(ipMask).ip,
                                      bits |-> ParseCIDR(ipMask).bits])])

\* NewIP(whiteList, insecure, useXForwardedFor)
NewIP(whiteList, insecure, useXForwardedFor) ==
    IF Len(whiteList) = 0 /\ ~insecure
    THEN [ip |-> NilWhiteList, err |-> "no white list provided"]
    ELSE LET ip == [isNil |-> FALSE, whiteListsIPs |-> <<>>, whiteListsNet |-> <<>>,
                    insecure |-> insecure, useXForwardedFor |-> useXForwardedFor]
         IN  IF ~insecure THEN ParseWhiteList(whiteList, ip) ELSE [ip |-> ip, err |-> ""]

\* ip.ContainsIP(addr)
ContainsIP(ip, addr) ==
    \/ ip.insecure
    \/ \E i \in DOMAIN ip.whiteListsIPs : ip.whiteListsIPs[i] = addr
    \/ \E i \in DOMAIN ip.whiteListsNet : NetContains(ip.whiteListsNet[i], addr)

\* ip.contains(addr)
Contains(ip, addr) ==
    IF ParseIP(addr) = NilIP
    THEN [ok |-> FALSE, err |-> <<"unable to parse address", addr>>]
    ELSE [ok |-> ContainsIP(ip, ParseIP(addr)), err |-> <<>>]

parseHost(addr) == IF SplitHostPort(addr).err /= "" THEN addr ELSE SplitHostPort(addr).host

\* a plausible slip: the header is looked at whatever the configuration says
ConsultsXForwardedForAlways(ip) == TRUE

\* if ip.useXForwardedFor
ConsultsXForwardedFor(ip) == ip.useXForwardedFor

\* the loop over the X-Forwarded-For values: the result it returns, or
\* "next" when no value ended the call
RECURSIVE CheckXForwardedFor(_, _)
CheckXForwardedFor(ip, xFFs) ==
    IF xFFs = <<>> THEN [next |-> TRUE]
    ELSE LET found == Contains(ip, parseHost(Head(xFFs)))
         IN  IF found.err /= <<>> THEN [next |-> FALSE, ok |-> FALSE, err |-> found.err]
             ELSE IF found.ok THEN [next |-> FALSE, ok |-> TRUE, err |-> <<>>]
             ELSE CheckXForwardedFor(ip, Tail(xFFs))

\* ip.IsAuthorized(req): (ok, err)
IsAuthorized(ip, request) ==
    IF ip.insecure THEN [ok |-> TRUE, err |-> <<>>]
    ELSE LET forwarded == IF ConsultsXForwardedFor(ip)
                          THEN CheckXForwardedFor(ip, request.XForwardedFor)
                          ELSE [next |-> TRUE]
         IN  IF ~forwarded.next THEN [ok |-> forwarded.ok, err |-> forwarded.err]
             ELSE IF SplitHostPort(request.RemoteAddr).err /= ""
             THEN [ok |-> FALSE, err |-> <<SplitHostPort(request.RemoteAddr).err>>]
             ELSE Contains(ip, SplitHostPort(request.RemoteAddr).host)

outsideWhitelist ==
    <<storeVars, statusVars, proxyVars, chainVars, manager, balancer, publication, merging,
      listener, stats, forwardAuth, theServer, locking, lbs, authRequest, histogram>>

\* no IP has been built
InitWhitelist ==
    /\ CoreIdle
    /\ RestIdleBut("whitelist")
    /\ lastCall = NoCall
    /\ whitelist = [ip |-> NilWhiteList]

\* ip, err := NewIP(whiteList, insecure, useXForwardedFor)
NewIPStep ==
    /\ whitelist.ip.isNil
    /\ \E whiteList \in WhiteLists, insecure \in BOOLEAN, useXForwardedFor \in BOOLEAN :
          LET built == NewIP(whiteList, insecure, useXForwardedFor)
          IN  /\ whitelist' = [ip |-> built.ip]
              /\ lastCall' = [op |-> "NewIP", whiteList |-> whiteList, err |-> built.err]
    /\ UNCHANGED outsideWhitelist

\* ok, err := ip.IsAuthorized(req)
IsAuthorizedStep ==
    /\ ~whitelist.ip.isNil
    /\ \E request \in WhiteListRequests :
          lastCall' = [op |-> "IsAuthorized", request |-> request,
                       result |-> IsAuthorized(whitelist.ip, request)]
    /\ UNCHANGED <<whitelist, outsideWhitelist>>

NextWhitelist == NewIPStep \/ IsAuthorizedStep

SpecWhitelist == InitWhitelist /\ [][NextWhitelist]_vars

\* C37: with useXForwardedFor false and insecure false, the result of
\* IsAuthorized is the result for the same RemoteAddr with any other
\* X-Forwarded-For header: it depends on RemoteAddr and on the white list only.
C37_RemoteAddrOnly ==
    (lastCall.op = "IsAuthorized" /\ ~whitelist.ip.insecure /\ ~whitelist.ip.useXForwardedFor)
        => \A xFFs \in XForwardedForHeaders :
               IsAuthorized(whitelist.ip, [lastCall.request EXCEPT !.XForwardedFor = xFFs])
                   = lastCall.result

\* a peer outside the white list claims a white-listed address in
\* X-Forwarded-For and is refused
C37_Witness ==
    /\ lastCall.op = "IsAuthorized"
    /\ ~whitelist.ip.insecure
    /\ ~whitelist.ip.useXForwardedFor
    /\ whitelist.ip.whiteListsIPs = <<ParseIP("10.0.0.1")>>
    /\ Len(whitelist.ip.whiteListsNet) = 1
    /\ lastCall.request.RemoteAddr = "10.0.0.9:4000"
    /\ lastCall.request.XForwardedFor = <<"10.0.0.1">>
    /\ lastCall.result = [ok |-> FALSE, err |-> <<>>]


----------------------------------------------------------------------------
(* The headers of the request to the authentication server *)

\* http.Header: header name -> values; h.Get(k) is the first value or ""
HeaderGet(h, k) == IF k \in DOMAIN h /\ Len(h[k]) > 0 THEN h[k][1] ELSE ""

HeaderSet(h, k, v) == (k :> <<v>>) @@ h

HeaderDel(h, k) == [x \in DOMAIN h \ {k} |-> h[x]]

\* utils.CopyHeaders(dst, src): dst[k] = append(dst[k], vv...) for k, vv of src
CopyHeaders(dst, src) ==
    [k \in DOMAIN dst \cup DOMAIN src |->
        (IF k \in DOMAIN dst THEN dst[k] ELSE <<>>) \o (IF k \in DOMAIN src THEN src[k] ELSE <<>>)]

\* utils.RemoveHeaders(h, names...)
RemoveHeaders(h, names) == [x \in DOMAIN h \ names |-> h[x]]

\* forward.HopHeaders
HopHeaders ==
    {"Connection", "Keep-Alive", "Proxy-Authenticate", "Proxy-Authorization", "Te",
     "Trailers", "Transfer-Encoding", "Upgrade"}

\* strings.Join(list, ", ")
RECURSIVE JoinComma(_)
JoinComma(list) ==
    IF list = <<>> THEN ""
    ELSE IF Len(list) = 1 THEN list[1]
    ELSE list[1] \o ", " \o JoinComma(Tail(list))

XForwardedNames ==
    {"X-Forwarded-For", "X-Forwarded-Method", "X-Forwarded-Proto", "X-Forwarded-Port",
     "X-Forwarded-Host", "X-Forwarded-Uri"}

\* what the client put into the X-Forwarded-* headers: any of them, one value each
ClientForwardedHeaders ==
    {[k \in ks |-> <<"spoofed">>] : ks \in SUBSET XForwardedNames}

\* the headers of the client that are not X-Forwarded-*
OtherClientHeaders == [k \in {"Cookie", "Connection"} |-> <<"c">>]

\* the requests that reach the middleware; "@" is the RemoteAddr of a
\* connection over a Unix socket, which has no port
AuthClientRequests ==
    {[RemoteAddr |-> ra, Method |-> method, TLS |-> tls, Host |-> host, RequestURI |-> "/path",
      Header |-> forwarded @@ OtherClientHeaders] :
        ra \in {"10.0.0.9:4000", "@"}, method \in {"GET", ""}, tls \in BOOLEAN,
        host \in {"example.com", ""}, forwarded \in ClientForwardedHeaders}

\* X-Forwarded-For: set from RemoteAddr when that has a port
WriteXForwardedFor(h, request, trustForwardHeader) ==
    IF SplitHostPort(request.RemoteAddr).err /= "" THEN h
    ELSE LET clientIP == SplitHostPort(request.RemoteAddr).host
         IN  IF trustForwardHeader /\ "X-Forwarded-For" \in DOMAIN request.Header
             THEN HeaderSet(h, "X-Forwarded-For",
                      JoinComma(request.Header["X-Forwarded-For"]) \o ", " \o clientIP)
             ELSE HeaderSet(h, "X-Forwarded-For", clientIP)

\* the switch on X-Forwarded-Method, X-Forwarded-Host and X-Forwarded-Uri:
\* the client's header if trusted, else what the request says, else no header
WriteFromRequest(h, request, trustForwardHeader, name, own) ==
    IF HeaderGet(request.Header, name) /= "" /\ trustForwardHeader
    THEN HeaderSet(h, name, HeaderGet(request.Header, name))
    ELSE IF own /= "" THEN HeaderSet(h, name, own)
    ELSE HeaderDel(h, name)

\* the switch on X-Forwarded-Proto
WriteXForwardedProto(h, request, trustForwardHeader) ==
    IF HeaderGet(request.Header, "X-Forwarded-Proto") /= "" /\ trustForwardHeader
    THEN HeaderSet(h, "X-Forwarded-Proto", HeaderGet(request.Header, "X-Forwarded-Proto"))
    ELSE IF request.TLS THEN HeaderSet(h, "X-Forwarded-Proto", "https")
    ELSE HeaderSet(h, "X-Forwarded-Proto", "http")

\* the if on X-Forwarded-Port: it has no else
WriteXForwardedPort(h, request, trustForwardHeader) ==
    IF HeaderGet(request.Header, "X-Forwarded-Port") /= "" /\ trustForwardHeader
    THEN HeaderSet(h, "X-Forwarded-Port", HeaderGet(request.Header, "X-Forwarded-Port"))
    ELSE h

\* writeHeader(req, forwardReq, trustForwardHeader): forwardReq.Header after
\* it, forwardReq being fresh from http.NewRequest
WriteHeader(request, trustForwardHeader) ==
    LET copied == RemoveHeaders(CopyHeaders(<<>>, request.Header), HopHeaders)
        h1 == WriteXForwardedFor(copied, request, trustForwardHeader)
        h2 == WriteFromRequest(h1, request, trustForwardHeader, "X-Forwarded-Method",
                               request.Method)
        h3 == WriteXForwardedProto(h2, request, trustForwardHeader)
        h4 == WriteXForwardedPort(h3, request, trustForwardHeader)
        h5 == WriteFromRequest(h4, request, trustForwardHeader, "X-Forwarded-Host",
                               request.Host)
    IN  WriteFromRequest(h5, request, trustForwardHeader, "X-Forwarded-Uri",
                         request.RequestURI)

outsideAuthRequest ==
    <<storeVars, statusVars, proxyVars, chainVars, manager, balancer, publication, merging,
      listener, stats, forwardAuth, theServer, locking, lbs, whitelist, histogram>>

\* a request has reached ServeHTTP of a forward-auth middleware
InitWriteHeader ==
    /\ CoreIdle
    /\ RestIdleBut("authRequest")
    /\ lastCall = NoCall
    /\ \E request \in AuthClientRequests, trustForwardHeader \in BOOLEAN :
          authRequest = [pc |-> "writeHeader", trustForwardHeader |-> trustForwardHeader,
                         request |-> request, forwardReq |-> <<>>]

\* writeHeader(req, forwardReq, fa.trustForwardHeader)
WriteHeaderStep ==
    /\ authRequest.pc = "writeHeader"
    /\ authRequest' = [authRequest EXCEPT
          !.pc = "Do",
          !.forwardReq = WriteHeader(authRequest.request, authRequest.trustForwardHeader)]
    /\ lastCall' = [op |-> "writeHeader"]
    /\ UNCHANGED outsideAuthRequest

NextWriteHeader == WriteHeaderStep

SpecWriteHeader == InitWriteHeader /\ [][NextWriteHeader]_vars

\* the X-Forwarded-* headers among h
ForwardedOf(h) == [k \in DOMAIN h \cap XForwardedNames |-> h[k]]

\* the request with the X-Forwarded-* headers of the client replaced
WithForwarded(request, forwarded) ==
    [request EXCEPT !.Header = forwarded @@ RemoveHeaders(request.Header, XForwardedNames)]

\* the listed headers of the request to the authentication server are what
\* they would be whatever X-Forwarded-* headers the client had sent
IndependentOfClient(names) ==
    \A forwarded \in ClientForwardedHeaders :
        LET other == WriteHeader(WithForwarded(authRequest.request, forwarded),
                                 authRequest.trustForwardHeader)
        IN  \A k \in names :
                /\ k \in DOMAIN other <=> k \in DOMAIN authRequest.forwardReq
                /\ k \in DOMAIN other => other[k] = authRequest.forwardReq[k]

\* C38: with trustForwardHeader false, the X-Forwarded-For, -Method, -Proto,
\* -Port, -Host and -Uri headers of the request sent to the authentication
\* server are the same for two client requests that differ only in their
\* X-Forwarded-* headers.
C38_ForwardedHeadersIndependent ==
    (authRequest.pc = "Do" /\ ~authRequest.trustForwardHeader)
        => IndependentOfClient(XForwardedNames)

\* what does hold: X-Forwarded-Method, -Proto, -Host and -Uri never depend on
\* the client's headers, and X-Forwarded-For does not when RemoteAddr has a port
UntrustedHeadersOverwritten ==
    (authRequest.pc = "Do" /\ ~authRequest.trustForwardHeader)
        => /\ IndependentOfClient({"X-Forwarded-Method", "X-Forwarded-Proto",
                                   "X-Forwarded-Host", "X-Forwarded-Uri"})
           /\ SplitHostPort(authRequest.request.RemoteAddr).err = ""
                  => IndependentOfClient({"X-Forwarded-For"})

\* the client's X-Forwarded-Port has reached the authentication server
\* though trustForwardHeader is false
SpoofedPortForwarded ==
    /\ authRequest.pc = "Do"
    /\ ~authRequest.trustForwardHeader
    /\ authRequest.request.RemoteAddr = "10.0.0.9:4000"
    /\ DOMAIN authRequest.request.Header = {"X-Forwarded-Port", "Cookie", "Connection"}
    /\ authRequest.forwardReq =
           [k \in {"Cookie", "X-Forwarded-For", "X-Forwarded-Method", "X-Forwarded-Proto",
                   "X-Forwarded-Port", "X-Forwarded-Host", "X-Forwarded-Uri"} |->
               CASE k = "Cookie" -> <<"c">>
                 [] k = "X-Forwarded-For" -> <<"10.0.0.9">>
                 [] k = "X-Forwarded-Method" -> <<authRequest.request.Method>>
                 [] k = "X-Forwarded-Proto" -> <<IF authRequest.request.TLS THEN "https" ELSE "http">>
                 [] k = "X-Forwarded-Port" -> <<"spoofed">>
                 [] k = "X-Forwarded-Host" -> <<authRequest.request.Host>>
                 [] k = "X-Forwarded-Uri" -> <<"/path">>]


----------------------------------------------------------------------------
(* The headers of the authentication response copied into the request *)

\* http.CanonicalHeaderKey on the configured names of the runs
CanonicalHeaderKey(name) == IF name = "x-auth-user" THEN "X-Auth-User" ELSE name

\* strings.ContainsAny(configHeader, "*?[]")
IsWildcard(configHeader) == configHeader = "X-Auth-*"

\* filepath.Match(pattern, name) on the patterns and header names of the runs
Match(pattern, name) ==
    \/ pattern = name
    \/ pattern = "X-Auth-*" /\ name \in {"X-Auth-User", "X-Auth-Role"}

\* fa.authResponseHeaders: up to two names, as the configuration spells them
AuthResponseHeaderLists ==
    LET names == {"x-auth-user", "X-Auth-*"}
    IN  {<<>>} \cup {<<n>> : n \in names} \cup {<<n, o>> : n \in names, o \in names}

\* the headers the client sent
ClientAuthHeaders ==
    {[k \in ks |-> <<"client">>] : ks \in SUBSET {"X-Auth-User", "X-Auth-Role", "Cookie"}}

\* the headers of the authentication response
ForwardResponseHeaders ==
    {[k \in ks |-> <<"auth">>] : ks \in SUBSET {"X-Auth-User", "X-Auth-Role"}}

\* the wildcard branch for one pattern: the request headers that match are
\* deleted, then the response headers that match, are not empty and were not
\* set before are copied
CopyMatching(state, configHeader, response) ==
    LET kept == [k \in {x \in DOMAIN state.header : ~Match(configHeader, x)} |->
                    state.header[k]]
        fresh == {k \in DOMAIN response :
                     /\ k \notin state.setHeaders
                     /\ Len(response[k]) /= 0
                     /\ Match(configHeader, k)}
    IN  [header |-> [k \in fresh |-> response[k]] @@ kept,
         setHeaders |-> state.setHeaders \cup fresh]

\* the branch for a plain name: the header is replaced if the response has it
CopyNamed(state, configHeader, response) ==
    IF configHeader \in DOMAIN response /\ Len(response[configHeader]) > 0
    THEN [header |-> (configHeader :> response[configHeader]) @@ state.header,
          setHeaders |-> state.setHeaders \cup {configHeader}]
    ELSE state

\* the loop over fa.authResponseHeaders
RECURSIVE CopyAuthResponseHeaders(_, _, _)
CopyAuthResponseHeaders(state, names, response) ==
    IF names = <<>> THEN state
    ELSE LET configHeader == CanonicalHeaderKey(Head(names))
         IN  CopyAuthResponseHeaders(
                 IF IsWildcard(configHeader) THEN CopyMatching(state, configHeader, response)
                 ELSE CopyNamed(state, configHeader, response),
                 Tail(names), response)

\* the request has been sent to the authentication server
InitAuthResponse ==
    /\ CoreIdle
    /\ RestIdleBut("authRequest")
    /\ lastCall = NoCall
    /\ \E names \in AuthResponseHeaderLists, header \in ClientAuthHeaders :
          authRequest = [pc |-> "Do", authResponseHeaders |-> names, header |-> header,
                         statusCode |-> NoStatus, response |-> <<>>, next |-> <<>>]

\* forwardResponse, forwardErr := fa.client.Do(forwardReq), without error
AuthAnswerStep ==
    /\ authRequest.pc = "Do"
    /\ \E statusCode \in {StatusOK, 401}, response \in ForwardResponseHeaders :
          authRequest' = [authRequest EXCEPT
              !.pc = "answered", !.statusCode = statusCode, !.response = response]
    /\ lastCall' = [op |-> "Do"]
    /\ UNCHANGED outsideAuthRequest

\* a status outside [200, 300): the answer is relayed to the client
AuthRelayStep ==
    /\ authRequest.pc = "answered"
    /\ ~Authorized(authRequest.statusCode)
    /\ authRequest' = [authRequest EXCEPT !.pc = "relayed"]
    /\ lastCall' = [op |-> "relay"]
    /\ UNCHANGED outsideAuthRequest

\* a status in [200, 300): the configured headers are copied and
\* fa.next.ServeHTTP(rw, req) is called
AuthNextStep ==
    /\ authRequest.pc = "answered"
    /\ Authorized(authRequest.statusCode)
    /\ authRequest' = [authRequest EXCEPT
          !.pc = "next",
          !.next = CopyAuthResponseHeaders(
                       [header |-> authRequest.header, setHeaders |-> {}],
                       authRequest.authResponseHeaders, authRequest.response).header]
    /\ lastCall' = [op |-> "next"]
    /\ UNCHANGED outsideAuthRequest

NextAuthResponse == AuthAnswerStep \/ AuthRelayStep \/ AuthNextStep

SpecAuthResponse == InitAuthResponse /\ [][NextAuthResponse]_vars

\* the header names that the configured list covers
ConfiguredHeaders ==
    {k \in {"X-Auth-User", "X-Auth-Role", "Cookie"} :
        \E i \in DOMAIN authRequest.authResponseHeaders :
            Match(CanonicalHeaderKey(authRequest.authResponseHeaders[i]), k)}

\* C39: on a 2xx answer, for every header that authResponseHeaders names the
\* request passed to next carries exactly the values of the authentication
\* response, and no value at all when the response lacks the header.
C39_AuthHeadersFromAuthOnly ==
    authRequest.pc = "next" =>
        \A k \in ConfiguredHeaders :
            IF k \in DOMAIN authRequest.response
            THEN k \in DOMAIN authRequest.next /\ authRequest.next[k] = authRequest.response[k]
            ELSE k \notin DOMAIN authRequest.next

\* the client's X-Auth-User has reached next: the header is configured by
\* name and the authentication response does not have it
ClientValueReachesNext ==
    /\ authRequest.pc = "next"
    /\ authRequest.authResponseHeaders = <<"x-auth-user">>
    /\ authRequest.header = [k \in {"X-Auth-User"} |-> <<"client">>]
    /\ authRequest.response = <<>>
    /\ authRequest.next = [k \in {"X-Auth-User"} |-> <<"client">>]

\* the X-Auth-User of the authentication response has not reached next: the
\* name set it and the pattern that follows deleted it
AuthValueDropped ==
    /\ authRequest.pc = "next"
    /\ authRequest.authResponseHeaders = <<"x-auth-user", "X-Auth-*">>
    /\ authRequest.header = <<>>
    /\ authRequest.response = [k \in {"X-Auth-User"} |-> <<"auth">>]
    /\ authRequest.next = <<>>

\* what does hold: a header that only a pattern covers comes from the
\* authentication response alone when one pattern is configured
OnePatternFromAuthOnly ==
    (authRequest.pc = "next" /\ authRequest.authResponseHeaders = <<"X-Auth-*">>)
        => \A k \in ConfiguredHeaders :
               IF k \in DOMAIN authRequest.response
               THEN k \in DOMAIN authRequest.next
                    /\ authRequest.next[k] = authRequest.response[k]
               ELSE k \notin DOMAIN authRequest.next


----------------------------------------------------------------------------
(* ScalableHistogram.With *)

\* calls of With made on the base histogram
MaxWithCalls == 3

\* the label values handed to With
LabelValues == {<<"service", "a">>, <<"service", "b">>, <<"method", "GET">>}

\* (metrics.Histogram).With(labelValues...): a new histogram that has the
\* label values of the old one and the added ones
HistogramWith(labels, labelValues) == labels \o labelValues

\* NewHistogramWithScale(h, u): a new *HistogramWithScale on the heap
NewHistogramWithScale(heap, labels) == Append(heap, [histogram |-> labels])

\* the label values that a ScalableHistogram carries: those of its
\* metrics.Histogram, for a MultiHistogram those of each element
LabelsOf(heap, scalable) ==
    IF scalable.kind = "HistogramWithScale" THEN heap[scalable.at].histogram
    ELSE [i \in DOMAIN scalable.elements |-> heap[scalable.elements[i]].histogram]

\* (*HistogramWithScale).With: s.histogram = s.histogram.With(labelValues...)
ScaleWith(heap, s, labelValues) ==
    [heap EXCEPT ![s].histogram = HistogramWith(@, labelValues)]

\* the loop of MultiHistogram.With: next[i] = h[i].With(labelValues...) from
\* element i on; every element is a *HistogramWithScale, whose With returns
\* the element itself
RECURSIVE MultiWith(_, _, _, _)
MultiWith(heap, h, i, labelValues) ==
    IF i > Len(h) THEN heap
    ELSE MultiWith(ScaleWith(heap, h[i], labelValues), h, i + 1, labelValues)

outsideHistogram ==
    <<storeVars, statusVars, proxyVars, chainVars, manager, balancer, publication, merging,
      listener, stats, forwardAuth, theServer, locking, lbs, whitelist, authRequest>>

\* a registry has built its base histogram: one HistogramWithScale, or a
\* MultiHistogram of two
InitHistogram ==
    /\ CoreIdle
    /\ RestIdleBut("histogram")
    /\ lastCall = NoCall
    /\ \E labels \in {<<>>, <<"code", "200">>} :
          \/ histogram = [heap |-> NewHistogramWithScale(<<>>, labels),
                          base |-> [kind |-> "HistogramWithScale", at |-> 1],
                          baseLabels |-> labels,
                          results |-> <<>>]
          \/ histogram = [heap |-> NewHistogramWithScale(NewHistogramWithScale(<<>>, labels),
                                                         labels),
                          base |-> [kind |-> "MultiHistogram", elements |-> <<1, 2>>],
                          baseLabels |-> <<labels, labels>>,
                          results |-> <<>>]

\* result := base.With(labelValues...), base being a *HistogramWithScale
HistogramWithScaleWithStep ==
    /\ histogram.base.kind = "HistogramWithScale"
    /\ Len(histogram.results) < MaxWithCalls
    /\ \E labelValues \in LabelValues :
          /\ histogram' = [histogram EXCEPT
                !.heap = ScaleWith(@, histogram.base.at, labelValues),
                !.results = Append(@, [value |-> histogram.base, labelValues |-> labelValues])]
          /\ lastCall' = [op |-> "With", labelValues |-> labelValues]
    /\ UNCHANGED outsideHistogram

\* result := base.With(labelValues...), base being a MultiHistogram
MultiHistogramWithStep ==
    /\ histogram.base.kind = "MultiHistogram"
    /\ Len(histogram.results) < MaxWithCalls
    /\ \E labelValues \in LabelValues :
          /\ histogram' = [histogram EXCEPT
                !.heap = MultiWith(@, histogram.base.elements, 1, labelValues),
                !.results = Append(@, [value |-> [kind |-> "MultiHistogram",
                                                  elements |-> histogram.base.elements],
                                       labelValues |-> labelValues])]
          /\ lastCall' = [op |-> "With", labelValues |-> labelValues]
    /\ UNCHANGED outsideHistogram

NextHistogram == HistogramWithScaleWithStep \/ MultiHistogramWithStep

SpecHistogram == InitHistogram /\ [][NextHistogram]_vars

\* the labels of the base with labelValues added
BasePlus(labelValues) ==
    IF histogram.base.kind = "HistogramWithScale" THEN histogram.baseLabels \o labelValues
    ELSE [i \in DOMAIN histogram.baseLabels |-> histogram.baseLabels[i] \o labelValues]

\* C40: after any sequence of With calls on one base ScalableHistogram, the
\* base carries the labels it was built with and every result carries those
\* and the label values of its own call, no others.
C40_WithLeavesReceiver ==
    /\ LabelsOf(histogram.heap, histogram.base) = histogram.baseLabels
    /\ \A i \in DOMAIN histogram.results :
          LabelsOf(histogram.heap, histogram.results[i].value) =
              BasePlus(histogram.results[i].labelValues)

RECURSIVE AllLabelValues(_)
AllLabelValues(results) ==
    IF results = <<>> THEN <<>>
    ELSE AllLabelValues(SubSeq(results, 1, Len(results) - 1))
             \o results[Len(results)].labelValues

\* what does hold: the base and every result carry the label values of all
\* the calls made so far
WithAccumulates ==
    /\ LabelsOf(histogram.heap, histogram.base) = BasePlus(AllLabelValues(histogram.results))
    /\ \A i \in DOMAIN histogram.results :
          LabelsOf(histogram.heap, histogram.results[i].value) =
              BasePlus(AllLabelValues(histogram.results))

\* With("service", "a") then With("service", "b") on one HistogramWithScale:
\* the base and both results carry service a and service b
LabelsOfTwoCalls ==
    /\ histogram.base.kind = "HistogramWithScale"
    /\ histogram.baseLabels = <<>>
    /\ Len(histogram.results) = 2
    /\ histogram.results[1].labelValues = <<"service", "a">>
    /\ histogram.results[2].labelValues = <<"service", "b">>
    /\ LabelsOf(histogram.heap, histogram.results[1].value) = <<"service", "a", "service", "b">>
    /\ LabelsOf(histogram.heap, histogram.base) = <<"service", "a", "service", "b">>

====
